---- MODULE Spec2Model ----
(***************************************************************************)
(* Model of the 2D geometry utilities (utils/2d.js) and of the interactive *)
(* polygon-intersection demos built on them.                               *)
(*                                                                         *)
(* Number model.  Coordinates are integers.  The code computes in IEEE     *)
(* doubles; on the small integer inputs used here every product and sum of *)
(* the orientation determinant is exact.  Lengths (Math.hypot, vec2.len)   *)
(* are square roots: a length is carried by its square, and a projected    *)
(* distance by a fraction num/den of its square, so that every comparison  *)
(* the code makes between lengths is decided exactly.  The one non-number  *)
(* the code can produce here, NaN, is carried explicitly.                  *)
(*                                                                         *)
(* Indexing.  JavaScript arrays are 0-based, TLA+ sequences 1-based:       *)
(* poly[i] of the code is poly[i + 1] here, loop counters keep the code's  *)
(* 0-based values.                                                         *)
(***************************************************************************)
EXTENDS Integers, Sequences, FiniteSets, TLC

VARIABLES
    pc,           \* pure-function harness: "input" or the name of the function applied
    args,         \* pure-function harness: the arguments drawn
    ret,          \* pure-function harness: the value returned
    triangles,    \* polygonsDemo: the triangle records
    rectangles,   \* polygonsDemo: the rectangle records
    circles,      \* polygonsDemo: the circle records
    prevMouse,    \* polygonsDemo: closure variable prevMouse
    onmousemove,  \* polygonsDemo: demo.onmousemove (NoHandler or the drag installed)
    nEvents,      \* number of pointer events delivered so far (bounded)
    armed,        \* history: the most recent mousedown was within reach of an
                  \* anchor and no mouseup has been delivered since
    dragStart,    \* history: the pointer and the grabbed anchor at the most recent
                  \* mousedown, and the mousemoves handled since
    robot,        \* robot demo: the globals of Hierarchy.js, the last key pressed,
                  \* the globals before it and the number of keys so far
    stack,        \* robot demo: the Stack of draw() and the record of its calls
    square,       \* rotating square: the closure variables of mainEntrance, the
                  \* arguments of the last draw and the events so far
    gasket        \* Sierpinski demo: the globals of test.js, the controls of the
                  \* page and the events so far

harnessVars == <<pc, args, ret>>
demoVars == <<triangles, rectangles, circles, prevMouse, onmousemove, nEvents, armed,
              dragStart>>
robotVars == <<robot, stack>>
squareVars == <<square>>
gasketVars == <<gasket>>
vars == <<pc, args, ret, triangles, rectangles, circles, prevMouse, onmousemove, nEvents,
          armed, dragStart, robot, stack, square, gasket>>

\* ------------------------------------------------------------------------
\* Bounds of the model
\* ------------------------------------------------------------------------

\* segment endpoints are drawn from the grid 0..MaxSegCoord squared
MaxSegCoord == 2

\* vertices of the convex polygons and the points tested against them are drawn
\* from the grid 0..MaxPolyCoord squared
MaxPolyCoord == 3

\* the circles tested against those polygons have radius 0..MaxPolyRadius
MaxPolyRadius == 2

\* pairs of polygons: the anchor offsets of a shape are 1..MaxScale times a
\* direction, and the second shape is shifted by -MaxShift..MaxShift on each axis
MaxScale == 2

MaxShift == 3

\* polygonsDemo: at most MaxEvents pointer events are delivered
MaxEvents == 3

\* vertices of the simple polygons are drawn from the grid -1..MaxSimpleCoord squared
MaxSimpleCoord == 2

\* the point and the segment of distToSegment are drawn from 0..MaxDistCoord squared
MaxDistCoord == 2

\* circle centres are drawn from 0..MaxCircleCoord squared, radii from 0..MaxRadius
MaxCircleCoord == 4

MaxRadius == 3

\* drags of one rectangle: at most MaxDrags drags, a side midpoint dragged onto
\* the centre or to MaxDragScale times 50 pixels from it
MaxDrags == 2

MaxDragScale == 1

\* triangle and circle drags: anchors on the grid 0..MaxAnchorCoord squared,
\* deltas of at most MaxAnchorCoord on each axis
MaxAnchorCoord == 2

\* the arguments of orient are drawn from the grid -MaxOrientCoord..MaxOrientCoord
\* squared
MaxOrientCoord == 1

\* robot demo: at most MaxKeys keys are pressed
MaxKeys == 3

\* Stack: at most MaxStackOps calls are made on one Stack
MaxStackOps == 5

\* Sierpinski demo: the subdivision values handed to drawTriangle are
\* -1..MaxNdiv
MaxNdiv == 8

\* Sierpinski demo: the slider is moved to 0..MaxSliderValue, and at most
\* MaxGasketEvents events follow init()
MaxSliderValue == 2
MaxGasketEvents == 3

\* rotating square: at most MaxSquareEvents events (the load event, frames and
\* key presses)
MaxSquareEvents == 4

\* ------------------------------------------------------------------------
\* Arithmetic helpers
\* ------------------------------------------------------------------------

Abs(x) == IF x < 0 THEN -x ELSE x

Max(x, y) == IF x > y THEN x ELSE y

Min(x, y) == IF x < y THEN x ELSE y

\* Math.sign on integers
Sign(x) == IF x > 0 THEN 1 ELSE IF x < 0 THEN -1 ELSE 0

\* vec2.sub / vec2.add / vec2.dot of gl-matrix, as used by the sources
Sub(a, b) == <<a[1] - b[1], a[2] - b[2]>>

Add(a, b) == <<a[1] + b[1], a[2] + b[2]>>

Dot(a, b) == a[1] * b[1] + a[2] * b[2]

\* square of dist(a, b) = Math.hypot(x1 - x0, y1 - y0)
DistSq(a, b) == (b[1] - a[1]) * (b[1] - a[1]) + (b[2] - a[2]) * (b[2] - a[2])

\* mat3.determinant of the row-major matrix m (a sequence of 9 numbers)
Determinant(m) ==
    m[1] * (m[9] * m[5] - m[6] * m[8])
    + m[2] * (-m[9] * m[4] + m[6] * m[7])
    + m[3] * (m[8] * m[4] - m[5] * m[7])

\* ------------------------------------------------------------------------
\* utils/2d.js: orientation and segment predicates
\* ------------------------------------------------------------------------

\* the determinant returned without Math.sign
orientUnsigned(a, b, c) ==
    Determinant(<<1, a[1], a[2], 1, b[1], b[2], 1, c[1], c[2]>>)

orient(a, b, c) ==
    Sign(Determinant(<<1, a[1], a[2], 1, b[1], b[2], 1, c[1], c[2]>>))

segmentsIntersect(a, b, c, d) ==
    /\ Abs(orient(a, b, c) - orient(a, b, d)) >= 1
    /\ Abs(orient(c, d, a) - orient(c, d, b)) >= 1

\* the second straddle test forgotten
glvec2SegmentsIntersectOneSided(a, b, c, d) ==
    orient(a, b, c) # orient(a, b, d)

\* the copy of the predicate in the demo files (glvec2.segmentsIntersect)
glvec2SegmentsIntersect(a, b, c, d) ==
    /\ orient(a, b, c) # orient(a, b, d)
    /\ orient(c, d, a) # orient(c, d, b)

\* the first straddle test as loose as in segmentsIntersect
segmentsIntersectProperLoose(a, b, c, d) ==
    /\ Abs(orient(a, b, c) - orient(a, b, d)) >= 1
    /\ Abs(orient(c, d, a) - orient(c, d, b)) = 2

segmentsIntersectProper(a, b, c, d) ==
    /\ Abs(orient(a, b, c) - orient(a, b, d)) = 2
    /\ Abs(orient(c, d, a) - orient(c, d, b)) = 2

\* ------------------------------------------------------------------------
\* utils/2d.js: point in polygon
\* ------------------------------------------------------------------------

pointInConvexPoly(p, poly) ==
    LET n == Len(poly)
        equalsX == \E i \in 1..(n - 1) : poly[1][1] = poly[i + 1][1]
        equalsY == \E i \in 1..(n - 1) : poly[1][2] = poly[i + 1][2]
        o == orient(poly[1], poly[2], p)
    IN  IF equalsX /\ equalsY THEN FALSE
        ELSE \A i \in 1..(n - 1) :
                orient(poly[i + 1], poly[((i + 1) % n) + 1], p) = o

\* const yOrient = (p) => Math.sign(p[1] - py)
yOrient(q, py) == Sign(q[2] - py)

\* one iteration of pointInPoly's loop: what it adds to count
pointInPolyStep(p, poly, i, prev, prevYOr) ==
    LET n == Len(poly)
        q == poly[i + 1]
        yOr == yOrient(q, p[2])
        pOr == orient(prev, q, p)
        far == <<Max(prev[1], q[1]) * 2, p[2]>>
        farOr == orient(prev, q, far)
        next == poly[((i + 1) % n) + 1]
        nextYOr == yOrient(next, p[2])
    IN  IF Abs(yOr - prevYOr) >= 1 /\ Abs(pOr - farOr) = 2
        THEN IF yOr = 0
             THEN (IF Abs(nextYOr - prevYOr) = 2 THEN 1 ELSE 0)
             ELSE (IF prevYOr # 0 THEN 1 ELSE 0)
        ELSE 0

RECURSIVE pointInPolyLoop(_, _, _, _, _, _)
pointInPolyLoop(p, poly, i, prev, prevYOr, count) ==
    IF i >= Len(poly) THEN count
    ELSE pointInPolyLoop(p, poly, i + 1, poly[i + 1], yOrient(poly[i + 1], p[2]),
                         count + pointInPolyStep(p, poly, i, prev, prevYOr))

pointInPoly(p, poly) ==
    LET n == Len(poly)
    IN  pointInPolyLoop(p, poly, 0, poly[n], yOrient(poly[n], p[2]), 0) % 2 = 1

\* ------------------------------------------------------------------------
\* utils/2d.js: distance from a point to a segment
\* ------------------------------------------------------------------------

\* a non-negative number sqrt(num / den), den > 0
Root(n, d) == [nan |-> FALSE, num |-> n, den |-> d]

\* the value NaN
NaN == [nan |-> TRUE, num |-> 0, den |-> 1]

\* dist(a, b) as a number
dist(a, b) == Root(DistSq(a, b), 1)

\* x == y of JavaScript on two such numbers (NaN equals nothing)
NumEq(x, y) == ~x.nan /\ ~y.nan /\ x.num * y.den = y.num * x.den

\* x <= sqrt(rSq) of JavaScript (false when x is NaN)
NumLeqRoot(x, rSq) == ~x.nan /\ x.num <= rSq * x.den

\* distToSegment without the line  if (t > vlen) return dist(p, b)
distToSegmentPastEnd(p, a, b) ==
    LET v == Sub(b, a)
        vlenSq == DistSq(a, b)
        ap == Sub(p, a)
        tn == Dot(v, ap)
    IN  IF vlenSq = 0 THEN NaN
        ELSE IF tn < 0 THEN dist(p, a)
        ELSE Root(Dot(ap, ap) * vlenSq - tn * tn, vlenSq)

\* With vlen = |b - a| and vnorm = v / vlen, t = vnorm . ap = tn / vlen where
\* tn = v . ap.  For vlen > 0: t < 0 iff tn < 0, t > vlen iff tn > vlen^2, and
\* |ap - t vnorm|^2 = |ap|^2 - t^2 = (|ap|^2 vlen^2 - tn^2) / vlen^2.
\* For vlen = 0: 1 / vlen is Infinity, vnorm = [0 * Infinity, 0 * Infinity] is
\* [NaN, NaN], t is NaN, both comparisons are false and the length returned
\* is NaN.
distToSegment(p, a, b) ==
    LET v == Sub(b, a)
        vlenSq == DistSq(a, b)
        ap == Sub(p, a)
        tn == Dot(v, ap)
    IN  IF vlenSq = 0 THEN NaN
        ELSE IF tn < 0 THEN dist(p, a)
        ELSE IF tn > vlenSq THEN dist(p, b)
        ELSE Root(Dot(ap, ap) * vlenSq - tn * tn, vlenSq)

\* ------------------------------------------------------------------------
\* Demo files: shape builders
\* ------------------------------------------------------------------------

\* the builder with w = [u[1], u[0]] in place of w = [u[1], -u[0]]
createIsoceslesTriangleLopsided(basePoint, oppositeVertex) ==
    LET u == Sub(basePoint, oppositeVertex)
        v == <<-u[2], u[1]>>
        w == <<u[2], u[1]>>
    IN  <<oppositeVertex, Add(basePoint, v), Add(basePoint, w)>>

createIsoceslesTriangle(basePoint, oppositeVertex) ==
    LET u == Sub(basePoint, oppositeVertex)
        v == <<-u[2], u[1]>>
        w == <<u[2], -u[1]>>
    IN  <<oppositeVertex, Add(basePoint, v), Add(basePoint, w)>>

createMidPoints(center, width, height) ==
    << Add(center, <<width, 0>>),
       Add(center, <<0, height>>),
       Add(center, <<-width, 0>>),
       Add(center, <<0, -height>>) >>

createRectangle(center, midPoints) ==
    LET delta == Sub(midPoints[2], center)
    IN  << Add(midPoints[1], delta),
           Sub(midPoints[1], delta),
           Sub(midPoints[3], delta),
           Add(midPoints[3], delta) >>

\* ------------------------------------------------------------------------
\* Demo files: intersection tests
\* ------------------------------------------------------------------------

BoolToInt(b) == IF b THEN 1 ELSE 0

\* the edge test with the last line  if (points1 >= 3) return true
RECURSIVE convexPolysIntersectLoopFirstCounter(_, _, _, _, _, _)
convexPolysIntersectLoopFirstCounter(poly, poly2, i, j, points1, points2) ==
    LET n == Len(poly)
        n2 == Len(poly2)
    IN  IF i >= n THEN points1 >= 3
        ELSE IF j >= n2
        THEN convexPolysIntersectLoopFirstCounter(poly, poly2, i + 1, 0, points1,
                 points2 + BoolToInt(pointInConvexPoly(poly[i + 1], poly2)))
        ELSE IF glvec2SegmentsIntersect(poly[i + 1], poly[((i + 1) % n) + 1],
                                        poly2[j + 1], poly2[((j + 1) % n2) + 1])
        THEN TRUE
        ELSE convexPolysIntersectLoopFirstCounter(poly, poly2, i, j + 1,
                 points1 + BoolToInt(pointInConvexPoly(poly2[j + 1], poly)), points2)

\* The edge test of unnamed/part_000 and trab02/PolygonIntersection.js.
\* i, j are the loop counters; the inner loop returns true at the first pair of
\* edges that intersect and otherwise counts points1, the outer loop counts
\* points2 after each inner loop.
RECURSIVE convexPolysIntersectLoop(_, _, _, _, _, _)
convexPolysIntersectLoop(poly, poly2, i, j, points1, points2) ==
    LET n == Len(poly)
        n2 == Len(poly2)
    IN  IF i >= n THEN (points1 >= 3 \/ points2 >= 3)
        ELSE IF j >= n2
        THEN convexPolysIntersectLoop(poly, poly2, i + 1, 0, points1,
                 points2 + BoolToInt(pointInConvexPoly(poly[i + 1], poly2)))
        ELSE IF glvec2SegmentsIntersect(poly[i + 1], poly[((i + 1) % n) + 1],
                                        poly2[j + 1], poly2[((j + 1) % n2) + 1])
        THEN TRUE
        ELSE convexPolysIntersectLoop(poly, poly2, i, j + 1,
                 points1 + BoolToInt(pointInConvexPoly(poly2[j + 1], poly)), points2)

convexPolysIntersect(poly, poly2) ==
    convexPolysIntersectLoop(poly, poly2, 0, 0, 0, 0)

\* SAT.testPolygonPolygon of the SAT.js library, called without a response
\* object: the polygons do not collide iff the normal of some edge of either is
\* a separating axis.  The library normalises each normal; the comparison of
\* the projected ranges is unchanged by that positive factor (a zero-length
\* edge has the zero normal, which separates nothing).
SATNormal(points, i) ==
    LET n == Len(points)
        edge == Sub(points[((i + 1) % n) + 1], points[i + 1])
    IN  <<edge[2], -edge[1]>>

SATRangeMin(points, axis) ==
    CHOOSE m \in {Dot(points[k], axis) : k \in 1..Len(points)} :
        \A k \in 1..Len(points) : m <= Dot(points[k], axis)

SATRangeMax(points, axis) ==
    CHOOSE m \in {Dot(points[k], axis) : k \in 1..Len(points)} :
        \A k \in 1..Len(points) : m >= Dot(points[k], axis)

SATIsSeparatingAxis(aPoints, bPoints, axis) ==
    \/ SATRangeMin(aPoints, axis) > SATRangeMax(bPoints, axis)
    \/ SATRangeMin(bPoints, axis) > SATRangeMax(aPoints, axis)

SATTestPolygonPolygon(aPoints, bPoints) ==
    /\ \A i \in 0..(Len(aPoints) - 1) :
          ~SATIsSeparatingAxis(aPoints, bPoints, SATNormal(aPoints, i))
    /\ \A i \in 0..(Len(bPoints) - 1) :
          ~SATIsSeparatingAxis(aPoints, bPoints, SATNormal(bPoints, i))

\* convexPolysIntersect of unnamed/part_002, which hands both polygons to SAT
convexPolysIntersectSAT(polygon, polygon2) ==
    SATTestPolygonPolygon(polygon, polygon2)

\* circleRadiusSq is the square of the radius handed to the code
convexPolyCircleIntersect(circleCenter, circleRadiusSq, poly) ==
    \/ pointInConvexPoly(circleCenter, poly)
    \/ \E i \in 0..(Len(poly) - 1) :
          NumLeqRoot(distToSegment(circleCenter, poly[i + 1],
                                   poly[((i + 1) % Len(poly)) + 1]), circleRadiusSq)

\* sqrt(dSq) > sqrt(aSq) + sqrt(bSq), decided on the squares:
\* d > a + b  iff  d^2 - a^2 - b^2 > 2ab  iff  the left side x is positive and
\* x^2 > 4 a^2 b^2, which for a positive integer x is x > (4 a^2 b^2) div x
RootGtSum(dSq, aSq, bSq) ==
    LET x == dSq - aSq - bSq
    IN  /\ x > 0
        /\ x > (4 * aSq * bSq) \div x

\* tangent circles reported apart
circlesIntersectStrict(center1, radius1Sq, center2, radius2Sq) ==
    LET dSq == DistSq(center1, center2)
        e == dSq - radius1Sq - radius2Sq
    IN  ~(e >= 0 /\ e * e >= 4 * radius1Sq * radius2Sq)

\* radius1Sq, radius2Sq are the squares of the radii handed to the code
circlesIntersect(center1, radius1Sq, center2, radius2Sq) ==
    IF RootGtSum(DistSq(center1, center2), radius1Sq, radius2Sq) THEN FALSE ELSE TRUE

\* ------------------------------------------------------------------------
\* Reference geometry (exact, used to state what the predicates should say)
\* ------------------------------------------------------------------------

Cross(u, v) == u[1] * v[2] - u[2] * v[1]

\* p lies on the closed segment a-b
OnSegment(p, a, b) ==
    /\ Cross(Sub(b, a), Sub(p, a)) = 0
    /\ Min(a[1], b[1]) <= p[1] /\ p[1] <= Max(a[1], b[1])
    /\ Min(a[2], b[2]) <= p[2] /\ p[2] <= Max(a[2], b[2])

\* the closed segments a-b and c-d have a point in common: for non-parallel
\* supporting lines the parameters t, u of the unique common point of the lines
\* are both in [0, 1]; otherwise an endpoint of one lies on the other
SegmentsMeet(a, b, c, d) ==
    LET r == Sub(b, a)
        s == Sub(d, c)
        w == Sub(c, a)
        D == Cross(r, s)
        tn == Cross(w, s)
        un == Cross(w, r)
    IN  IF D > 0 THEN 0 <= tn /\ tn <= D /\ 0 <= un /\ un <= D
        ELSE IF D < 0 THEN D <= tn /\ tn <= 0 /\ D <= un /\ un <= 0
        ELSE \/ OnSegment(c, a, b) \/ OnSegment(d, a, b)
             \/ OnSegment(a, c, d) \/ OnSegment(b, c, d)

\* the segments cross at one point that is interior to both
SegmentsCrossProperly(a, b, c, d) ==
    LET r == Sub(b, a)
        s == Sub(d, c)
        w == Sub(c, a)
        D == Cross(r, s)
        tn == Cross(w, s)
        un == Cross(w, r)
    IN  IF D > 0 THEN 0 < tn /\ tn < D /\ 0 < un /\ un < D
        ELSE IF D < 0 THEN D < tn /\ tn < 0 /\ D < un /\ un < 0
        ELSE FALSE

\* twice the area of the triangle a, b, c
TwiceTriangleArea(a, b, c) == Abs(Cross(Sub(b, a), Sub(c, a)))

RECURSIVE SumOver(_, _)
SumOver(f, k) == IF k = 0 THEN 0 ELSE f[k] + SumOver(f, k - 1)

\* the vertex after vertex k (1-based) of a closed polygon
NextVertex(poly, k) == poly[(k % Len(poly)) + 1]

\* twice the signed area of a polygon (shoelace formula)
TwiceSignedArea(poly) ==
    SumOver([k \in 1..Len(poly) |-> Cross(poly[k], NextVertex(poly, k))], Len(poly))

\* twice the areas of the triangles that p spans with each edge of poly
FanAreas(p, poly) ==
    [k \in 1..Len(poly) |-> TwiceTriangleArea(p, poly[k], NextVertex(poly, k))]

\* p is in the open interior of the convex polygon poly of positive area: the
\* triangles p spans with the edges tile the polygon and none is flat
StrictlyInsideConvex(p, poly) ==
    /\ \A k \in 1..Len(poly) : FanAreas(p, poly)[k] > 0
    /\ SumOver(FanAreas(p, poly), Len(poly)) = Abs(TwiceSignedArea(poly))

\* p is outside the closed convex polygon poly: the triangles overshoot its area
StrictlyOutsideConvex(p, poly) ==
    SumOver(FanAreas(p, poly), Len(poly)) > Abs(TwiceSignedArea(poly))

\* p is on the boundary of the polygon
OnBoundary(p, poly) ==
    \E k \in 1..Len(poly) : OnSegment(p, poly[k], NextVertex(poly, k))

\* the closed polygon is simple: its vertices are distinct, edges that are not
\* neighbours do not meet, neighbouring edges meet in their common vertex only,
\* and its area is not zero
IsSimplePolygon(poly) ==
    LET n == Len(poly)
    IN  /\ \A j, k \in 1..n : j # k => poly[j] # poly[k]
        /\ \A j, k \in 1..n :
              (j # k /\ NextVertex(poly, j) # poly[k] /\ NextVertex(poly, k) # poly[j])
                 => ~SegmentsMeet(poly[j], NextVertex(poly, j),
                                  poly[k], NextVertex(poly, k))
        /\ \A j, k \in 1..n :
              (poly[k] # poly[j] /\ poly[k] # NextVertex(poly, j))
                 => ~OnSegment(poly[k], poly[j], NextVertex(poly, j))
        /\ TwiceSignedArea(poly) # 0

\* the edge a-b crosses the horizontal ray from p towards +x, an edge being
\* closed at its lower end and open at its upper end
RayCrossesEdge(p, a, b) ==
    /\ (a[2] > p[2]) # (b[2] > p[2])
    /\ LET dy == b[2] - a[2]
           lhs == (p[1] - a[1]) * dy
           rhs == (p[2] - a[2]) * (b[1] - a[1])
       IN  IF dy > 0 THEN lhs < rhs ELSE lhs > rhs

\* p, not on the boundary, is inside the simple polygon: the ray crosses the
\* boundary an odd number of times
InsideSimple(p, poly) ==
    Cardinality({k \in 1..Len(poly) :
                    RayCrossesEdge(p, poly[k], NextVertex(poly, k))}) % 2 = 1

\* some point of the closed segment a-b is within sqrt(rSq) of p: an endpoint
\* is, or the foot of the perpendicular from p falls on the segment and the
\* perpendicular is that short
SegmentWithin(p, a, b, rSq) ==
    LET v == Sub(b, a)
        ap == Sub(p, a)
    IN  \/ DistSq(p, a) <= rSq
        \/ DistSq(p, b) <= rSq
        \/ /\ a # b
           /\ 0 <= Dot(ap, v) /\ Dot(ap, v) <= Dot(v, v)
           /\ Cross(v, ap) * Cross(v, ap) <= rSq * Dot(v, v)

\* ------------------------------------------------------------------------
\* polygonsDemo (unnamed/part_002): the shapes after construction
\* ------------------------------------------------------------------------

\* vec2d.distance(mouse, anchor) <= 5
HitRadius == 5

\* The demo is followed on a grid whose step is the hit radius, 5 pixels: every
\* coordinate, width, height and radius that polygonsDemo writes is a multiple
\* of it, and every test and drag is unchanged by a change of the unit of length.
GridStep == HitRadius

Px(n) == n \div GridStep

PxPt(p) == <<Px(p[1]), Px(p[2])>>

NoHandler == [kind |-> "none", shape |-> 0, anchor |-> 0]

NoMouse == <<>>

\* before the first mousedown
NoDragStart == [mouse |-> NoMouse, moves |-> 0, anchor |-> NoMouse]

\* const triangles = [...], then makePts: poly from the two anchors
InitTriangle(basePoint, oppositeVertex) ==
    [ basePoint |-> basePoint,
      oppositeVertex |-> oppositeVertex,
      poly |-> createIsoceslesTriangle(basePoint, oppositeVertex),
      color |-> "black" ]

\* const rectangles = [...], then makePts: midPoints from width and height
InitRectangle(center, width, height) ==
    [ center |-> center,
      midPoints |-> createMidPoints(center, width, height),
      poly |-> createRectangle(center, createMidPoints(center, width, height)),
      color |-> "black" ]

\* const circles = [...], then makePts: control = [center[0], center[1] - radius]
InitCircle(center, radius) ==
    [ center |-> center,
      control |-> <<center[1], center[2] - radius>>,
      radiusSq |-> radius * radius,
      color |-> "black" ]

InitTriangles ==
    << InitTriangle(PxPt(<<100, 100>>), PxPt(<<100, 50>>)),
       InitTriangle(PxPt(<<250, 100>>), PxPt(<<250, 50>>)),
       InitTriangle(PxPt(<<400, 100>>), PxPt(<<400, 50>>)) >>

InitRectangles ==
    << InitRectangle(PxPt(<<100, 230>>), Px(50), Px(80)),
       InitRectangle(PxPt(<<250, 230>>), Px(50), Px(80)),
       InitRectangle(PxPt(<<400, 230>>), Px(50), Px(80)) >>

InitCircles ==
    << InitCircle(PxPt(<<100, 410>>), Px(50)),
       InitCircle(PxPt(<<250, 410>>), Px(50)),
       InitCircle(PxPt(<<400, 410>>), Px(50)) >>

\* ------------------------------------------------------------------------
\* Robot demo (3.Hierarchy/Hierarchy.js): the hands and the torso
\* ------------------------------------------------------------------------

\* class Stack.  A matrix is written as the sequence of the names of its
\* factors; undefined, and the identity new Matrix4(undefined) makes of it, are
\* the empty sequence.
NoMatrix == <<>>

\* constructor(): this.elements = []; this.t = 0
StackNew == [elements |-> <<>>, t |-> 0]

\* this.elements[this.t++] = m, on the array written 1-based
push(s, m) ==
    [elements |-> [k \in 1..Max(Len(s.elements), s.t + 1) |->
                      IF k = s.t + 1 THEN m
                      ELSE IF k <= Len(s.elements) THEN s.elements[k]
                      ELSE NoMatrix],
     t |-> s.t + 1]

\* the value top() returns
top(s) == IF s.t <= 0 THEN NoMatrix ELSE s.elements[s.t]

\* pop() without the test this.t <= 0
popUnguarded(s) ==
    [stack |-> [elements |-> [k \in 1..Len(s.elements) |->
                                 IF k = s.t THEN NoMatrix ELSE s.elements[k]],
                t |-> s.t - 1],
     value |-> IF s.t >= 1 /\ s.t <= Len(s.elements) THEN s.elements[s.t] ELSE NoMatrix]

\* pop(): the stack it leaves and the value it returns
pop(s) ==
    IF s.t <= 0 THEN [stack |-> s, value |-> NoMatrix]
    ELSE [stack |-> [elements |-> [s.elements EXCEPT ![s.t] = NoMatrix], t |-> s.t - 1],
          value |-> s.elements[s.t]]

isEmpty(s) == s.t <= 0

\* a Stack with the record of the calls made on it: the numbers of push and
\* pop calls and of the top and pop calls made while it was empty
Traced(s) == [s |-> s, pushes |-> 0, pops |-> 0, underflows |-> 0]

TracedPush(T, m) == [T EXCEPT !.s = push(T.s, m), !.pushes = @ + 1]

TracedTop(T) == [T EXCEPT !.underflows = @ + BoolToInt(isEmpty(T.s))]

TracedPop(T) ==
    [T EXCEPT !.s = pop(T.s).stack, !.pops = @ + 1,
              !.underflows = @ + BoolToInt(isEmpty(T.s))]

\* the statements of draw() that use the stack, in order: s.push(m),
\* s.push(new Matrix4(s.top()).multiply(m)) written pushChild, renderCube(s,
\* local) and s.pop()
DrawStatementsUnbalanced ==
    << [op |-> "push", m |-> "torsoMatrix"],
       [op |-> "renderCube", m |-> "torsoMatrixLocal"],
       [op |-> "pushChild", m |-> "rightLegMatrix"],
       [op |-> "renderCube", m |-> "legMatrixLocal"],
       [op |-> "pushChild", m |-> "rightLowerLegMatrix"],
       [op |-> "renderCube", m |-> "lowerLegMatrixLocal"],
       [op |-> "pushChild", m |-> "rightFootMatrix"],
       [op |-> "renderCube", m |-> "footMatrixLocal"],
       [op |-> "pop", m |-> ""],
       [op |-> "pop", m |-> ""],
       [op |-> "pop", m |-> ""],
       [op |-> "pushChild", m |-> "leftLegMatrix"],
       [op |-> "renderCube", m |-> "legMatrixLocal"],
       [op |-> "pushChild", m |-> "leftLowerLegMatrix"],
       [op |-> "renderCube", m |-> "lowerLegMatrixLocal"],
       [op |-> "pushChild", m |-> "leftFootMatrix"],
       [op |-> "renderCube", m |-> "footMatrixLocal"],
       [op |-> "pop", m |-> ""],
       [op |-> "pop", m |-> ""],
       [op |-> "pop", m |-> ""],
       [op |-> "pushChild", m |-> "rightShoulderMatrix"],
       [op |-> "renderCube", m |-> "shoulderMatrixLocal"],
       [op |-> "pushChild", m |-> "rightArmMatrix"],
       [op |-> "renderCube", m |-> "armMatrixLocal"],
       [op |-> "pushChild", m |-> "rightHandMatrix"],
       [op |-> "renderCube", m |-> "handMatrixLocal"],
       [op |-> "pop", m |-> ""],
       [op |-> "pop", m |-> ""],
       [op |-> "pop", m |-> ""],
       [op |-> "pushChild", m |-> "leftShoulderMatrix"],
       [op |-> "renderCube", m |-> "shoulderMatrixLocal"],
       [op |-> "pushChild", m |-> "leftArmMatrix"],
       [op |-> "renderCube", m |-> "armMatrixLocal"],
       [op |-> "pushChild", m |-> "leftHandMatrix"],
       [op |-> "renderCube", m |-> "handMatrixLocal"],
       [op |-> "pop", m |-> ""],
       [op |-> "pop", m |-> ""],
       [op |-> "pop", m |-> ""],
       [op |-> "pushChild", m |-> "headMatrix"],
       [op |-> "renderCube", m |-> "headMatrixLocal"],
       [op |-> "pushChild", m |-> "rightEyeMatrix"],
       [op |-> "renderCube", m |-> "eyeMatrixLocal"],
       [op |-> "pop", m |-> ""],
       [op |-> "pushChild", m |-> "leftEyeMatrix"],
       [op |-> "renderCube", m |-> "eyeMatrixLocal"],
       [op |-> "pop", m |-> ""],
       [op |-> "pushChild", m |-> "rightEyebrowMatrix"],
       [op |-> "renderCube", m |-> "eyebrowMatrixLocal"],
       [op |-> "pop", m |-> ""],
       [op |-> "pushChild", m |-> "leftEyebrowMatrix"],
       [op |-> "renderCube", m |-> "eyebrowMatrixLocal"],
       [op |-> "pop", m |-> ""],
       [op |-> "pushChild", m |-> "mouthMatrix"],
       [op |-> "renderCube", m |-> "mouthMatrixLocal"],
       [op |-> "pop", m |-> ""],
       [op |-> "pop", m |-> ""] >>

DrawStatements ==
    << [op |-> "push", m |-> "torsoMatrix"],
       [op |-> "renderCube", m |-> "torsoMatrixLocal"],
       [op |-> "pushChild", m |-> "rightLegMatrix"],
       [op |-> "renderCube", m |-> "legMatrixLocal"],
       [op |-> "pushChild", m |-> "rightLowerLegMatrix"],
       [op |-> "renderCube", m |-> "lowerLegMatrixLocal"],
       [op |-> "pushChild", m |-> "rightFootMatrix"],
       [op |-> "renderCube", m |-> "footMatrixLocal"],
       [op |-> "pop", m |-> ""],
       [op |-> "pop", m |-> ""],
       [op |-> "pop", m |-> ""],
       [op |-> "pushChild", m |-> "leftLegMatrix"],
       [op |-> "renderCube", m |-> "legMatrixLocal"],
       [op |-> "pushChild", m |-> "leftLowerLegMatrix"],
       [op |-> "renderCube", m |-> "lowerLegMatrixLocal"],
       [op |-> "pushChild", m |-> "leftFootMatrix"],
       [op |-> "renderCube", m |-> "footMatrixLocal"],
       [op |-> "pop", m |-> ""],
       [op |-> "pop", m |-> ""],
       [op |-> "pop", m |-> ""],
       [op |-> "pushChild", m |-> "rightShoulderMatrix"],
       [op |-> "renderCube", m |-> "shoulderMatrixLocal"],
       [op |-> "pushChild", m |-> "rightArmMatrix"],
       [op |-> "renderCube", m |-> "armMatrixLocal"],
       [op |-> "pushChild", m |-> "rightHandMatrix"],
       [op |-> "renderCube", m |-> "handMatrixLocal"],
       [op |-> "pop", m |-> ""],
       [op |-> "pop", m |-> ""],
       [op |-> "pop", m |-> ""],
       [op |-> "pushChild", m |-> "leftShoulderMatrix"],
       [op |-> "renderCube", m |-> "shoulderMatrixLocal"],
       [op |-> "pushChild", m |-> "leftArmMatrix"],
       [op |-> "renderCube", m |-> "armMatrixLocal"],
       [op |-> "pushChild", m |-> "leftHandMatrix"],
       [op |-> "renderCube", m |-> "handMatrixLocal"],
       [op |-> "pop", m |-> ""],
       [op |-> "pop", m |-> ""],
       [op |-> "pop", m |-> ""],
       [op |-> "pushChild", m |-> "headMatrix"],
       [op |-> "renderCube", m |-> "headMatrixLocal"],
       [op |-> "pushChild", m |-> "rightEyeMatrix"],
       [op |-> "renderCube", m |-> "eyeMatrixLocal"],
       [op |-> "pop", m |-> ""],
       [op |-> "pushChild", m |-> "leftEyeMatrix"],
       [op |-> "renderCube", m |-> "eyeMatrixLocal"],
       [op |-> "pop", m |-> ""],
       [op |-> "pushChild", m |-> "rightEyebrowMatrix"],
       [op |-> "renderCube", m |-> "eyebrowMatrixLocal"],
       [op |-> "pop", m |-> ""],
       [op |-> "pushChild", m |-> "leftEyebrowMatrix"],
       [op |-> "renderCube", m |-> "eyebrowMatrixLocal"],
       [op |-> "pop", m |-> ""],
       [op |-> "pushChild", m |-> "mouthMatrix"],
       [op |-> "renderCube", m |-> "mouthMatrixLocal"],
       [op |-> "pop", m |-> ""],
       [op |-> "pop", m |-> ""],
       [op |-> "pop", m |-> ""] >>

\* one statement of draw() on the traced stack; renderCube reads s.top()
drawStatement(T, stmt) ==
    IF stmt.op = "push" THEN TracedPush(T, <<stmt.m>>)
    ELSE IF stmt.op = "pushChild"
         THEN TracedPush(TracedTop(T), Append(top(T.s), stmt.m))
    ELSE IF stmt.op = "renderCube" THEN TracedTop(T)
    ELSE TracedPop(T)

\* (the test on T.pushes, a count that is never negative, has the record of
\* the statements so far computed before the next one)
RECURSIVE drawStatements(_, _, _)
drawStatements(T, stmts, k) ==
    IF k > Len(stmts) \/ T.pushes < 0 THEN T
    ELSE drawStatements(drawStatement(T, stmts[k]), stmts, k + 1)

\* draw(): var s = new Stack(), the statements, and the warning
\* "pops do not match pushes" when s is not empty at the end
\* (after: the number of keys pressed before this call)
draw(after) ==
    LET T == drawStatements(Traced(StackNew), DrawStatements, 1)
    IN  [s |-> T.s, pushes |-> T.pushes, pops |-> T.pops,
         underflows |-> T.underflows, warned |-> ~isEmpty(T.s), after |-> after]

\* draw() has not run yet
NoStack ==
    [s |-> StackNew, pushes |-> 0, pops |-> 0, underflows |-> 0, warned |-> FALSE,
     after |-> 0]

\* the rotation added or removed by one key press, in degrees
AngleStep == 15

\* new Matrix4().setTranslate(x, y, z).rotate(angle, 0, 1, 0): the matrix is
\* determined by the translation and by the angle up to whole turns
TranslateRotateY(translation, angle) ==
    [translate |-> translation, rotateY |-> angle % 360]

\* the globals after the script has loaded
RobotStart ==
    [ torsoAngle |-> 0,
      torsoMatrix |-> TranslateRotateY(<<0, 0, 0>>, 0),
      rightHandAngle |-> 0,
      rightHandMatrix |-> TranslateRotateY(<<0, -4, 0>>, 0),
      leftHandAngle |-> 0,
      leftHandMatrix |-> TranslateRotateY(<<0, -4, 0>>, 0) ]

\* the cases "t", "T", "h", "H", "g", "G", "i", "I" of the switch of
\* handleKeyPress on the globals r; a key without a case changes nothing
handleKeyPress(ch, r) ==
    IF ch = "t"
    THEN [r EXCEPT !.torsoAngle = r.torsoAngle + AngleStep,
                   !.torsoMatrix = TranslateRotateY(<<0, 0, 0>>, r.torsoAngle + AngleStep)]
    ELSE IF ch = "T"
    THEN [r EXCEPT !.torsoAngle = r.torsoAngle - AngleStep,
                   !.torsoMatrix = TranslateRotateY(<<0, 0, 0>>, r.torsoAngle - AngleStep)]
    ELSE IF ch = "h"
    THEN [r EXCEPT
            !.rightHandAngle = r.rightHandAngle + AngleStep,
            !.rightHandMatrix = TranslateRotateY(<<0, -4, 0>>, r.rightHandAngle + AngleStep),
            !.leftHandAngle = r.leftHandAngle + AngleStep,
            !.leftHandMatrix = TranslateRotateY(<<0, -4, 0>>, r.rightHandAngle + AngleStep)]
    ELSE IF ch = "H"
    THEN [r EXCEPT
            !.rightHandAngle = r.rightHandAngle - AngleStep,
            !.rightHandMatrix = TranslateRotateY(<<0, -4, 0>>, r.leftHandAngle),
            !.leftHandAngle = r.leftHandAngle - AngleStep,
            !.leftHandMatrix = TranslateRotateY(<<0, -4, 0>>, r.leftHandAngle - AngleStep)]
    ELSE IF ch = "g"
    THEN [r EXCEPT
            !.rightHandAngle = r.rightHandAngle + AngleStep,
            !.rightHandMatrix = TranslateRotateY(<<0, -4, 0>>, r.rightHandAngle + AngleStep)]
    ELSE IF ch = "G"
    THEN [r EXCEPT
            !.rightHandAngle = r.rightHandAngle - AngleStep,
            !.rightHandMatrix = TranslateRotateY(<<0, -4, 0>>, r.rightHandAngle - AngleStep)]
    ELSE IF ch = "i"
    THEN [r EXCEPT
            !.leftHandAngle = r.leftHandAngle + AngleStep,
            !.leftHandMatrix = TranslateRotateY(<<0, -4, 0>>, r.leftHandAngle + AngleStep)]
    ELSE IF ch = "I"
    THEN [r EXCEPT
            !.leftHandAngle = r.leftHandAngle - AngleStep,
            !.leftHandMatrix = TranslateRotateY(<<0, -4, 0>>, r.leftHandAngle - AngleStep)]
    ELSE r

\* no key pressed yet
NoKey == [globals |-> RobotStart, lastKey |-> "none", before |-> RobotStart, nKeys |-> 0]

\* no key pressed and nothing drawn yet
RobotIdle ==
    /\ robot = NoKey
    /\ stack = NoStack

\* ------------------------------------------------------------------------
\* Rotating square (unnamed/part_001): the closure variables of mainEntrance
\* ------------------------------------------------------------------------

\* let vertexIndex; before any key: the variable holds undefined, written as an
\* index no vertex has
Undefined == -1

\* runanimation without the line  if (angle <= -4) angle += 2
nextAngleUnclamped(angle) == angle - 2

\* angle -= 2; if (angle <= -4) angle += 2;
nextAngle(angle) ==
    LET a == angle - 2
    IN  IF a <= -4 THEN a + 2 ELSE a

\* the switch of the keydown listener on event.code
keydown(code, vertexIndex) ==
    IF code = "KeyP" THEN 5
    ELSE IF code = "KeyG" THEN 0
    ELSE IF code = "KeyY" THEN 1
    ELSE IF code = "KeyL" THEN 2
    ELSE vertexIndex

\* the arguments draw works with: function draw(ctx, angle, vertexIndex = 5)
drawArguments(angle, vertexIndex) ==
    [angle |-> angle, vertexIndex |-> IF vertexIndex = Undefined THEN 5 ELSE vertexIndex]

\* the arguments of the last call of draw: none yet
NoDraw == <<>>

\* the closure variables when mainEntrance has declared them, nothing drawn yet
SquareStart ==
    [ angle |-> 0, vertexIndex |-> Undefined, drawn |-> NoDraw, nFrames |-> 0 ]

\* one call of runanimation: draw, then the angle of the next frame
runanimation(s) ==
    [s EXCEPT !.drawn = <<drawArguments(s.angle, s.vertexIndex)>>,
              !.angle = nextAngle(s.angle),
              !.nFrames = s.nFrames + 1]

\* the page before its load event
SquareIdle ==
    square = [vars |-> SquareStart, last |-> "none", before |-> SquareStart, nEvents |-> 0]

\* ------------------------------------------------------------------------
\* Sierpinski gasket (test.js): the globals and the functions that change them
\* ------------------------------------------------------------------------
\* Angles are in tenths of a degree, points is the length of the array points,
\* timeouts and frames are the numbers of pending setTimeout callbacks of
\* render and of pending requestAnimFrame(render) callbacks.

\* the step 0.1 of ang in render, and 360 degrees, in tenths of a degree
AngStep == 1
FullTurn == 3600

\* a % m of JavaScript for m > 0: the sign of the result is the sign of a
JsRem(a, m) == IF a >= 0 THEN a % m ELSE -((-a) % m)

\* divideTriangle without  if (fill) divideTriangle(ac, bc, ab, count)
RECURSIVE divideTriangleOpen(_, _, _)
divideTriangleOpen(count, fill, points) ==
    IF count = 0 \/ points < 0 THEN points + 3
    ELSE LET c == count - 1
             p1 == divideTriangleOpen(c, fill, points)
             p2 == divideTriangleOpen(c, fill, p1)
         IN  divideTriangleOpen(c, fill, p2)

\* divideTriangle(a, b, c, count) on the length of points: triangle(a, b, c)
\* pushes three vertices (the test on points, a length that is never negative,
\* has the calls evaluated in the order the code makes them)
RECURSIVE divideTriangle(_, _, _)
divideTriangle(count, fill, points) ==
    IF count = 0 \/ points < 0 THEN points + 3
    ELSE LET c == count - 1
             p1 == divideTriangle(c, fill, points)
             p2 == divideTriangle(c, fill, p1)
             p3 == divideTriangle(c, fill, p2)
         IN  IF fill THEN divideTriangle(c, fill, p3) ELSE p3

\* render(): setTimeout(function () {...}, delay)
render(g) == [g EXCEPT !.timeouts = @ + 1]

\* drawTriangle(ndiv, doTwist, useGPU, angle) on the globals g
drawTriangle(ndiv, doTwist, useGPU, angle, g) ==
    LET n == Max(Min(ndiv, 7), 0)
        a == Max(Min(angle, FullTurn), -FullTurn)
    IN  render([g EXCEPT !.theta = a, !.twist = doTwist, !.gpu = useGPU,
                         !.cpu = ~useGPU, !.ang = a,
                         !.points = divideTriangle(n, g.fill, 0)])

\* the globals when the script has been read
GasketStart ==
    [fill |-> TRUE, ang |-> 0, delay |-> 100, cpu |-> FALSE, deform |-> TRUE,
     points |-> 0, theta |-> 0, twist |-> FALSE, gpu |-> FALSE,
     timeouts |-> 0, frames |-> 0]

\* var NumTimesToSubdivide = 5; var RotationAngle = 45.0
NumTimesToSubdivide == 5
RotationAngle == 450

\* init(): drawTriangle(NumTimesToSubdivide, true, true, RotationAngle)
init(g) == drawTriangle(NumTimesToSubdivide, TRUE, TRUE, RotationAngle, g)

\* the controls of the page as init() finds them: they show the defaults of
\* the script
ControlsStart ==
    [fill |-> TRUE, spin |-> FALSE, twist |-> TRUE, gpu |-> TRUE,
     div |-> NumTimesToSubdivide, slider |-> NumTimesToSubdivide,
     ang |-> RotationAngle]

\* clickCallBack() with the controls c; it leaves the slider at the value of div
clickCallBack(c, g) ==
    drawTriangle(c.div, c.twist, c.gpu, c.ang,
                 [g EXCEPT !.fill = c.fill,
                           !.delay = IF c.spin THEN 0 ELSE 100,
                           !.deform = c.twist])

\* the function render() hands to setTimeout, up to requestAnimFrame(render)
renderTimeout(g) ==
    LET a == JsRem(g.ang + AngStep, FullTurn)
    IN  [g EXCEPT !.ang = a,
                  !.theta = IF ~g.cpu THEN a ELSE @,
                  !.timeouts = @ - 1,
                  !.frames = @ + 1]

\* the page before its load event
GasketIdle ==
    gasket = [g |-> GasketStart, controls |-> ControlsStart, last |-> "none",
              draws |-> 0, n |-> 0]

\* the demo untouched, for the specifications that exercise one function
DemoIdle ==
    /\ triangles = InitTriangles
    /\ rectangles = InitRectangles
    /\ circles = InitCircles
    /\ prevMouse = NoMouse
    /\ onmousemove = NoHandler
    /\ nEvents = 0
    /\ armed = FALSE
    /\ dragStart = NoDragStart

\* ------------------------------------------------------------------------
\* Harness: a function applied once to arguments drawn from a bounded set
\* ------------------------------------------------------------------------

NoResult == "none"

Input(argSet) ==
    /\ pc = "input"
    /\ args \in argSet
    /\ ret = NoResult
    /\ DemoIdle
    /\ RobotIdle
    /\ SquareIdle
    /\ GasketIdle

Return(name, value) ==
    /\ pc = "input"
    /\ pc' = name
    /\ ret' = value
    /\ UNCHANGED args
    /\ UNCHANGED <<demoVars, robotVars, squareVars, gasketVars>>

\* ------------------------------------------------------------------------
\* SpecSegments: the segment predicates on all endpoints of a grid
\* ------------------------------------------------------------------------

SegPts == (0..MaxSegCoord) \X (0..MaxSegCoord)

SegArgs == [a : SegPts, b : SegPts, c : SegPts, d : SegPts]

InitSegments == Input(SegArgs)

CallSegmentsIntersect ==
    Return("segmentsIntersect", segmentsIntersect(args.a, args.b, args.c, args.d))

CallGlvec2SegmentsIntersect ==
    Return("glvec2.segmentsIntersect",
           glvec2SegmentsIntersect(args.a, args.b, args.c, args.d))

CallSegmentsIntersectProper ==
    Return("segmentsIntersectProper",
           segmentsIntersectProper(args.a, args.b, args.c, args.d))

NextSegments ==
    \/ CallSegmentsIntersect
    \/ CallGlvec2SegmentsIntersect
    \/ CallSegmentsIntersectProper

SpecSegments == InitSegments /\ [][NextSegments]_vars

\* C4: segmentsIntersect (both copies) returns true if and only if the closed
\* segments a-b and c-d have at least one point in common.
C4_SegmentsIntersectIffMeet ==
    pc \in {"segmentsIntersect", "glvec2.segmentsIntersect"}
        => (ret = SegmentsMeet(args.a, args.b, args.c, args.d))

\* what does hold of both copies: no false positive, and the only segments in
\* contact that are reported apart are parallel (collinear or degenerate)
SegmentsIntersectSound ==
    pc \in {"segmentsIntersect", "glvec2.segmentsIntersect"}
        => /\ ret => SegmentsMeet(args.a, args.b, args.c, args.d)
           /\ (SegmentsMeet(args.a, args.b, args.c, args.d) /\ ~ret)
                 => Cross(Sub(args.b, args.a), Sub(args.d, args.c)) = 0

\* C5: segmentsIntersectProper returns true exactly when the segments cross at
\* a single point interior to both; it is false for segments that share only an
\* endpoint or touch collinearly.
C5_ProperIffInteriorCrossing ==
    pc = "segmentsIntersectProper"
        => /\ ret = SegmentsCrossProperly(args.a, args.b, args.c, args.d)
           /\ (args.a \in {args.c, args.d} \/ args.b \in {args.c, args.d}) => ~ret
           /\ Cross(Sub(args.b, args.a), Sub(args.d, args.c)) = 0 => ~ret

\* a proper crossing has been tested and reported
C5_Witness ==
    /\ pc = "segmentsIntersectProper"
    /\ ret = TRUE
    /\ SegmentsCrossProperly(args.a, args.b, args.c, args.d)
    /\ args.a # args.c /\ args.b # args.d

\* ------------------------------------------------------------------------
\* SpecConvexPt: pointInConvexPoly on the triangles and rectangles of a grid
\* ------------------------------------------------------------------------

PolyPts == (0..MaxPolyCoord) \X (0..MaxPolyCoord)

\* every triangle of positive area, in both winding orders
GridTriangles ==
    UNION {{<<a, b, c>> : c \in {x \in PolyPts : Cross(Sub(b, a), Sub(x, a)) # 0}} :
             <<a, b>> \in PolyPts \X PolyPts}

\* every rectangle of positive area, in any orientation, from each corner, in
\* both winding orders: a, b, b + (d - a), d with a-b perpendicular to a-d
GridRectangles ==
    UNION {{<<a, b, Add(b, Sub(d, a)), d>> :
               d \in {x \in PolyPts : /\ Dot(Sub(b, a), Sub(x, a)) = 0
                                      /\ Cross(Sub(b, a), Sub(x, a)) # 0
                                      /\ Add(b, Sub(x, a)) \in PolyPts}} :
             <<a, b>> \in PolyPts \X PolyPts}

ConvexPtArgs == [poly : GridTriangles \cup GridRectangles, p : PolyPts]

InitConvexPt == Input(ConvexPtArgs)

CallPointInConvexPoly ==
    Return("pointInConvexPoly", pointInConvexPoly(args.p, args.poly))

NextConvexPt == CallPointInConvexPoly

SpecConvexPt == InitConvexPt /\ [][NextConvexPt]_vars

\* C1: for every convex polygon P of positive area and every point p strictly
\* inside P, pointInConvexPoly(p, P) is true; for p strictly outside it is false.
C1_PointInConvexPolyCorrect ==
    pc = "pointInConvexPoly"
        => /\ StrictlyInsideConvex(args.p, args.poly) => ret = TRUE
           /\ StrictlyOutsideConvex(args.p, args.poly) => ret = FALSE

\* the polygons on which the coordinate guard of pointInConvexPoly fires
GuardFires(poly) ==
    /\ \E i \in 2..Len(poly) : poly[1][1] = poly[i][1]
    /\ \E i \in 2..Len(poly) : poly[1][2] = poly[i][2]

\* what does hold: outside points are rejected, and inside points are accepted
\* exactly on the polygons the guard leaves alone
PointInConvexPolyUpToGuard ==
    pc = "pointInConvexPoly"
        => /\ StrictlyOutsideConvex(args.p, args.poly) => ret = FALSE
           /\ StrictlyInsideConvex(args.p, args.poly)
                 => (ret = ~GuardFires(args.poly))

\* ------------------------------------------------------------------------
\* SpecSimplePoly: pointInPoly on the simple triangles and quadrilaterals of
\* a grid with coordinates of either sign
\* ------------------------------------------------------------------------

SimplePts == ((-1)..MaxSimpleCoord) \X ((-1)..MaxSimpleCoord)

SimplePolys ==
    {poly \in (SimplePts \X SimplePts \X SimplePts)
              \cup (SimplePts \X SimplePts \X SimplePts \X SimplePts) :
        IsSimplePolygon(poly)}

SimplePolyArgs ==
    {x \in [poly : SimplePolys, p : SimplePts] : ~OnBoundary(x.p, x.poly)}

InitSimplePoly == Input(SimplePolyArgs)

CallPointInPoly == Return("pointInPoly", pointInPoly(args.p, args.poly))

NextSimplePoly == CallPointInPoly

SpecSimplePoly == InitSimplePoly /\ [][NextSimplePoly]_vars

\* C6: pointInPoly(p, poly) is true if and only if p lies inside the simple
\* polygon poly, for every point p not on its boundary.
C6_PointInPolyCorrect ==
    pc = "pointInPoly" => (ret = InsideSimple(args.p, args.poly))

\* ------------------------------------------------------------------------
\* SpecDist: distToSegment on the points of a grid
\* ------------------------------------------------------------------------

DistPts == (0..MaxDistCoord) \X (0..MaxDistCoord)

DistArgs == [p : DistPts, a : DistPts, b : DistPts]

InitDist == Input(DistArgs)

CallDistToSegment == Return("distToSegment", distToSegment(args.p, args.a, args.b))

NextDist == CallDistToSegment

SpecDist == InitDist /\ [][NextDist]_vars

\* C9: on the zero-length segment a-a, distToSegment(p, a, a) equals
\* distance(p, a), a well-defined number.
C9_DegenerateSegmentIsPointDistance ==
    (pc = "distToSegment" /\ args.a = args.b)
        => (~ret.nan /\ NumEq(ret, dist(args.p, args.a)))

\* ------------------------------------------------------------------------
\* SpecCircles: the circle-circle test on a grid of centres and radii
\* ------------------------------------------------------------------------

CirclePts == (0..MaxCircleCoord) \X (0..MaxCircleCoord)

CircleArgs ==
    [c1 : CirclePts, r1 : 0..MaxRadius, c2 : CirclePts, r2 : 0..MaxRadius]

InitCircles2 == Input(CircleArgs)

CallCirclesIntersect ==
    Return("circlesIntersect",
           circlesIntersect(args.c1, args.r1 * args.r1, args.c2, args.r2 * args.r2))

NextCircles == CallCirclesIntersect

SpecCircles == InitCircles2 /\ [][NextCircles]_vars

\* C8: circlesIntersect(c1, r1, c2, r2) is true if and only if
\* distance(c1, c2) <= r1 + r2: externally tangent circles intersect, and the
\* result is the same with the two circles exchanged.
C8_CirclesIntersectIffWithinSum ==
    pc = "circlesIntersect"
        => /\ ret = (DistSq(args.c1, args.c2)
                        <= (args.r1 + args.r2) * (args.r1 + args.r2))
           /\ ret = circlesIntersect(args.c2, args.r2 * args.r2,
                                     args.c1, args.r1 * args.r1)

\* two externally tangent circles of positive radius have been tested
C8_Witness ==
    /\ pc = "circlesIntersect"
    /\ args.r1 > 0 /\ args.r2 > 0
    /\ DistSq(args.c1, args.c2) = (args.r1 + args.r2) * (args.r1 + args.r2)
    /\ ret = TRUE

\* ------------------------------------------------------------------------
\* SpecPolyCircle: the polygon-circle test on the triangles and rectangles of
\* a grid, the circle centred on a grid point
\* ------------------------------------------------------------------------

PolyCircleArgs ==
    [poly : GridTriangles \cup GridRectangles, center : PolyPts, radius : 0..MaxPolyRadius]

InitPolyCircle == Input(PolyCircleArgs)

CallConvexPolyCircleIntersect ==
    Return("convexPolyCircleIntersect",
           convexPolyCircleIntersect(args.center, args.radius * args.radius, args.poly))

NextPolyCircle == CallConvexPolyCircleIntersect

SpecPolyCircle == InitPolyCircle /\ [][NextPolyCircle]_vars

\* some edge of poly is within the radius of the centre
SomeEdgeWithin(center, radiusSq, poly) ==
    \E k \in 1..Len(poly) :
        SegmentWithin(center, poly[k], NextVertex(poly, k), radiusSq)

\* C7: convexPolyCircleIntersect(center, radius, poly) is true whenever the
\* centre lies strictly inside poly, and whenever some edge of poly is at
\* distance <= radius from the centre, and false otherwise.
C7_PolyCircleCorrect ==
    pc = "convexPolyCircleIntersect"
        => (ret = (\/ StrictlyInsideConvex(args.center, args.poly)
                   \/ SomeEdgeWithin(args.center, args.radius * args.radius, args.poly)))

\* what does hold: the edge distances decide, and a centre strictly inside
\* counts only on the polygons the guard of pointInConvexPoly leaves alone
PolyCircleUpToGuard ==
    pc = "convexPolyCircleIntersect"
        => (ret = (\/ (StrictlyInsideConvex(args.center, args.poly)
                          /\ ~GuardFires(args.poly))
                   \/ SomeEdgeWithin(args.center, args.radius * args.radius, args.poly)))

\* ------------------------------------------------------------------------
\* SpecPolyPair: the edge-test convexPolysIntersect on pairs of triangles and
\* rectangles made by the demo's shape builders
\* ------------------------------------------------------------------------

\* directions of the anchor offsets: along the axes, diagonal and tilted
ShapeDirs == {<<1, 0>>, <<0, -1>>, <<-1, 0>>, <<1, 1>>, <<-1, 1>>, <<2, 1>>}

Scale(k, u) == <<k * u[1], k * u[2]>>

Perp(u) == <<-u[2], u[1]>>

\* the isosceles triangles with base midpoint c and the apex k steps along u
ShapeTriangles(c) ==
    {createIsoceslesTriangle(c, Add(c, Scale(k, u))) :
        k \in 1..MaxScale, u \in ShapeDirs}

\* the rectangles centred on c with half-axes k steps along u and m steps
\* along the perpendicular of u
ShapeRectangles(c) ==
    {createRectangle(c, << Add(c, Scale(k, u)), Add(c, Scale(m, Perp(u))),
                           Sub(c, Scale(k, u)), Sub(c, Scale(m, Perp(u))) >>) :
        k \in 1..MaxScale, m \in 1..MaxScale, u \in ShapeDirs}

Shapes(c) == ShapeTriangles(c) \cup ShapeRectangles(c)

Shifts == ((-MaxShift)..MaxShift) \X ((-MaxShift)..MaxShift)

PolyPairArgs ==
    UNION {[poly : Shapes(<<0, 0>>), poly2 : Shapes(t)] : t \in Shifts}

InitPolyPair == Input(PolyPairArgs)

CallConvexPolysIntersect ==
    Return("convexPolysIntersect", convexPolysIntersect(args.poly, args.poly2))

NextPolyPair == CallConvexPolysIntersect

SpecPolyPair == InitPolyPair /\ [][NextPolyPair]_vars

\* some edge of poly and some edge of poly2 cross at a point interior to both
EdgesCross(poly, poly2) ==
    \E j \in 1..Len(poly), k \in 1..Len(poly2) :
        SegmentsCrossProperly(poly[j], NextVertex(poly, j),
                              poly2[k], NextVertex(poly2, k))

\* some edge of poly and some edge of poly2 have a point in common
EdgesMeet(poly, poly2) ==
    \E j \in 1..Len(poly), k \in 1..Len(poly2) :
        SegmentsMeet(poly[j], NextVertex(poly, j), poly2[k], NextVertex(poly2, k))

\* every vertex of inner is strictly inside outer and the boundaries are apart
WhollyInside(inner, outer) ==
    /\ ~EdgesMeet(inner, outer)
    /\ \A k \in 1..Len(inner) : StrictlyInsideConvex(inner[k], outer)

\* the two convex polygons have no point in common: their boundaries are apart
\* and neither has a vertex inside the other
NoCommonPoint(poly, poly2) ==
    /\ ~EdgesMeet(poly, poly2)
    /\ ~StrictlyInsideConvex(poly[1], poly2)
    /\ ~StrictlyInsideConvex(poly2[1], poly)

\* C2: the edge-test convexPolysIntersect(P, Q) is true whenever some edge of
\* P crosses some edge of Q, and false whenever P and Q have no point in common.
C2_EdgeTestCrossingAndApart ==
    pc = "convexPolysIntersect"
        => /\ EdgesCross(args.poly, args.poly2) => ret = TRUE
           /\ NoCommonPoint(args.poly, args.poly2) => ret = FALSE

\* stronger than C2 asks: edges that merely touch are reported too
EdgeTestTouching ==
    pc = "convexPolysIntersect"
        => (EdgesMeet(args.poly, args.poly2) => ret = TRUE)

\* two polygons with crossing edges have been tested
C2_Witness ==
    /\ pc = "convexPolysIntersect"
    /\ EdgesCross(args.poly, args.poly2)
    /\ ret = TRUE

\* two polygons with no point in common have been tested
C2_WitnessApart ==
    /\ pc = "convexPolysIntersect"
    /\ NoCommonPoint(args.poly, args.poly2)
    /\ ret = FALSE

\* C3: when no edge of P intersects any edge of Q and one of the two polygons
\* lies wholly inside the other, convexPolysIntersect(P, Q) is true.
C3_ContainmentReported ==
    (/\ pc = "convexPolysIntersect"
     /\ \/ WhollyInside(args.poly, args.poly2)
        \/ WhollyInside(args.poly2, args.poly))
        => ret = TRUE

\* what does hold: containment is reported unless the guard of
\* pointInConvexPoly fires on the outer polygon
ContainmentUpToGuard ==
    pc = "convexPolysIntersect"
        => /\ WhollyInside(args.poly, args.poly2)
                 => (ret = ~GuardFires(args.poly2))
           /\ WhollyInside(args.poly2, args.poly)
                 => (ret = ~GuardFires(args.poly))

\* ------------------------------------------------------------------------
\* polygonsDemo (unnamed/part_002): drags
\* ------------------------------------------------------------------------

\* greatest common divisor of two naturals
RECURSIVE GCD(_, _)
GCD(x, y) == IF y = 0 THEN x ELSE GCD(y, x % y)

\* the least k >= from with k * k >= n
RECURSIVE RootCeil(_, _)
RootCeil(n, from) == IF from * from >= n THEN from ELSE RootCeil(n, from + 1)

\* the integer square root of n when n is a perfect square, otherwise -1
ExactSqrt(n) ==
    LET k == RootCeil(n, 0) IN IF k * k = n THEN k ELSE -1

\* vec2.rotate(out, a, b, -Math.PI / 2), then sub b, normalize, scale by
\* sqrt(sizeSq), add b: the point at distance sqrt(sizeSq) from b in the
\* direction of a - b turned by -90 degrees, (p0, p1) -> (p1, -p0).
\* vec2.normalize leaves the zero vector zero.  The result is <<>> when it has
\* no integer coordinates.
TurnedAndScaled(a, b, sizeSq) ==
    LET p == Sub(a, b)
        q == <<p[2], -p[1]>>
        g == GCD(Abs(q[1]), Abs(q[2]))
        e == <<q[1] \div g, q[2] \div g>>
        eSq == Dot(e, e)
        c == ExactSqrt(sizeSq \div eSq)
    IN  IF g = 0 THEN b
        ELSE IF sizeSq % eSq = 0 /\ c >= 0 THEN Add(b, Scale(c, e))
        ELSE <<>>

\* vec2.rotate(out, a, b, Math.PI): a turned by 180 degrees around b
HalfTurn(a, b) == Sub(b, Sub(a, b))

\* the centre drag without the line that moves the control point
dragCircleCenterAlone(delta, circle) ==
    [circle EXCEPT !.center = Add(circle.center, delta)]

dragCircleCenter(delta, circle) ==
    [circle EXCEPT !.center = Add(circle.center, delta),
                   !.control = Add(circle.control, delta)]

dragCircleControl(delta, circle) ==
    [circle EXCEPT !.control = Add(circle.control, delta)]

\* the base-point drag without the line that moves the opposite vertex
dragTriangleBasePointAlone(delta, triangle) ==
    [triangle EXCEPT !.basePoint = Add(triangle.basePoint, delta)]

dragTriangleBasePoint(delta, triangle) ==
    LET v == Sub(triangle.oppositeVertex, triangle.basePoint)
        base == Add(triangle.basePoint, delta)
    IN  [triangle EXCEPT !.basePoint = base, !.oppositeVertex = Add(base, v)]

dragTriangleOppositeVertex(delta, tri) ==
    [tri EXCEPT !.oppositeVertex = Add(tri.oppositeVertex, delta)]

\* the centre moved and every side midpoint put on it: add(rectangle[i],
\* rectangle[0], delta) in place of add(rectangle[i], rectangle[i], delta)
dragRectangleCenterCollapsing(delta, rectangle) ==
    [rectangle EXCEPT
        !.center = Add(rectangle.center, delta),
        !.midPoints = [k \in 1..4 |-> Add(Add(rectangle.center, delta), delta)]]

dragRectangleCenter(delta, rectangle) ==
    [rectangle EXCEPT
        !.center = Add(rectangle.center, delta),
        !.midPoints = [k \in 1..4 |-> Add(rectangle.midPoints[k], delta)]]

\* the side-midpoint drag without the line that moves the opposite midpoint
dragRectangleMidPointOppositeLeft(delta, i, rectangle) ==
    LET center == rectangle.center
        nxt == (i % 4) + 1
        prv == ((i - 2 + 4) % 4) + 1
        sizeSq == DistSq(rectangle.midPoints[nxt], center)
        vertex == Add(rectangle.midPoints[i], delta)
        next == TurnedAndScaled(vertex, center, sizeSq)
    IN  [rectangle EXCEPT
            !.midPoints = [k \in 1..4 |->
                IF k = prv THEN HalfTurn(next, center)
                ELSE IF k = nxt THEN next
                ELSE IF k = i THEN vertex
                ELSE rectangle.midPoints[k]]]

\* i in 1..4 is the index of the dragged midpoint in anchors = [center, ...midPoints]:
\* anchors[i] is midPoints[i] here.  The code's anchor indices are
\* ((i + 1) % 4) + 1 for the opposite midpoint, (i % 4) + 1 for the next one and
\* ((i - 2 + 4) % 4) + 1 for the previous one.
dragRectangleMidPoint(delta, i, rectangle) ==
    LET center == rectangle.center
        opp == ((i + 1) % 4) + 1
        nxt == (i % 4) + 1
        prv == ((i - 2 + 4) % 4) + 1
        sizeSq == DistSq(rectangle.midPoints[nxt], center)
        vertex == Add(rectangle.midPoints[i], delta)
        next == TurnedAndScaled(vertex, center, sizeSq)
    IN  [rectangle EXCEPT
            !.midPoints = [k \in 1..4 |->
                IF k = prv THEN HalfTurn(next, center)
                ELSE IF k = nxt THEN next
                ELSE IF k = opp THEN Sub(rectangle.midPoints[opp], delta)
                ELSE vertex]]

\* the drag leaves integer coordinates
DragIsExact(delta, i, rectangle) ==
    TurnedAndScaled(Add(rectangle.midPoints[i], delta), rectangle.center,
                    DistSq(rectangle.midPoints[(i % 4) + 1], rectangle.center)) # <<>>

\* ------------------------------------------------------------------------
\* polygonsDemo (unnamed/part_002): update()
\* ------------------------------------------------------------------------

NumShapes == 3

ShapeIds == {"triangle", "rectangle", "circle"} \X (1..NumShapes)

\* updateInfo: the polygons and the radius recomputed from the anchors
updateInfoTriangles(ts) ==
    [k \in 1..Len(ts) |->
        [ts[k] EXCEPT !.poly = createIsoceslesTriangle(ts[k].basePoint,
                                                        ts[k].oppositeVertex)]]

updateInfoRectangles(rs) ==
    [k \in 1..Len(rs) |->
        [rs[k] EXCEPT !.poly = createRectangle(rs[k].center, rs[k].midPoints)]]

updateInfoCircles(cs) ==
    [k \in 1..Len(cs) |->
        [cs[k] EXCEPT !.radiusSq = DistSq(cs[k].center, cs[k].control)]]

\* the shapes coloured red by checkTriangleIntersections(ts[i], ...)
checkTriangleIntersections(i, ts, rs, cs) ==
    UNION {IF i # j /\ convexPolysIntersectSAT(ts[i].poly, ts[j].poly)
           THEN {<<"triangle", i>>, <<"triangle", j>>} ELSE {} : j \in 1..Len(ts)}
    \cup
    UNION {IF convexPolyCircleIntersect(cs[j].center, cs[j].radiusSq, ts[i].poly)
           THEN {<<"circle", j>>, <<"triangle", i>>} ELSE {} : j \in 1..Len(cs)}
    \cup
    UNION {IF convexPolysIntersectSAT(rs[j].poly, ts[i].poly)
           THEN {<<"rectangle", j>>, <<"triangle", i>>} ELSE {} : j \in 1..Len(rs)}

\* the shapes coloured red by checkRectangleIntersections(rs[i], ...)
checkRectangleIntersections(i, ts, rs, cs) ==
    UNION {IF i # j /\ convexPolysIntersectSAT(rs[i].poly, rs[j].poly)
           THEN {<<"rectangle", i>>, <<"rectangle", j>>} ELSE {} : j \in 1..Len(rs)}
    \cup
    UNION {IF convexPolyCircleIntersect(cs[j].center, cs[j].radiusSq, rs[i].poly)
           THEN {<<"circle", j>>, <<"rectangle", i>>} ELSE {} : j \in 1..Len(cs)}
    \cup
    UNION {IF convexPolysIntersectSAT(rs[i].poly, ts[j].poly)
           THEN {<<"triangle", j>>, <<"rectangle", i>>} ELSE {} : j \in 1..Len(ts)}

\* the shapes coloured red by checkCircleIntersections(cs[i], ...)
checkCircleIntersections(i, ts, rs, cs) ==
    UNION {IF i # j /\ circlesIntersect(cs[i].center, cs[i].radiusSq,
                                        cs[j].center, cs[j].radiusSq)
           THEN {<<"circle", i>>, <<"circle", j>>} ELSE {} : j \in 1..Len(cs)}
    \cup
    UNION {IF convexPolyCircleIntersect(cs[i].center, cs[i].radiusSq, rs[j].poly)
           THEN {<<"circle", i>>, <<"rectangle", j>>} ELSE {} : j \in 1..Len(rs)}
    \cup
    UNION {IF convexPolyCircleIntersect(cs[i].center, cs[i].radiusSq, ts[j].poly)
           THEN {<<"circle", i>>, <<"triangle", j>>} ELSE {} : j \in 1..Len(ts)}

\* the order in which update() visits the shapes: the triangles, then the
\* rectangles, then the circles
UpdateOrder ==
    [k \in 1..(3 * NumShapes) |->
        IF k <= NumShapes THEN <<"triangle", k>>
        ELSE IF k <= 2 * NumShapes THEN <<"rectangle", k - NumShapes>>
        ELSE <<"circle", k - 2 * NumShapes>>]

checkIntersections(id, ts, rs, cs) ==
    IF id[1] = "triangle" THEN checkTriangleIntersections(id[2], ts, rs, cs)
    ELSE IF id[1] = "rectangle" THEN checkRectangleIntersections(id[2], ts, rs, cs)
    ELSE checkCircleIntersections(id[2], ts, rs, cs)

\* a shape visited by update() without its colour reset
updateLoopBodyNoReset(id, red, ts, rs, cs) ==
    red \cup checkIntersections(id, ts, rs, cs)

\* one iteration of update()'s loops on the set red of shapes coloured red:
\* shape.color = "black", then the check of that shape
updateLoopBody(id, red, ts, rs, cs) ==
    (red \ {id}) \cup checkIntersections(id, ts, rs, cs)

RECURSIVE updateLoops(_, _, _, _, _)
updateLoops(k, red, ts, rs, cs) ==
    IF k > Len(UpdateOrder) THEN red
    ELSE updateLoops(k + 1, updateLoopBody(UpdateOrder[k], red, ts, rs, cs), ts, rs, cs)

RedShapes(ts, rs, cs) ==
    {<<"triangle", k>> : k \in {j \in 1..Len(ts) : ts[j].color = "red"}}
    \cup {<<"rectangle", k>> : k \in {j \in 1..Len(rs) : rs[j].color = "red"}}
    \cup {<<"circle", k>> : k \in {j \in 1..Len(cs) : cs[j].color = "red"}}

Recolor(kind, shapes, red) ==
    [k \in 1..Len(shapes) |->
        [shapes[k] EXCEPT !.color = IF <<kind, k>> \in red THEN "red" ELSE "black"]]

\* update() without its call of updateInfo: the loops run on the polygons and
\* radii left by the previous update
updateWithoutInfo(ts, rs, cs) ==
    LET red == updateLoops(1, RedShapes(ts, rs, cs), ts, rs, cs)
    IN  << Recolor("triangle", ts, red),
           Recolor("rectangle", rs, red),
           Recolor("circle", cs, red) >>

\* update() on shapes whose anchors are ts, rs, cs: the three sequences after it
update(ts, rs, cs) ==
    LET ts1 == updateInfoTriangles(ts)
        rs1 == updateInfoRectangles(rs)
        cs1 == updateInfoCircles(cs)
        red == updateLoops(1, RedShapes(ts1, rs1, cs1), ts1, rs1, cs1)
    IN  << Recolor("triangle", ts1, red),
           Recolor("rectangle", rs1, red),
           Recolor("circle", cs1, red) >>

\* ------------------------------------------------------------------------
\* polygonsDemo (unnamed/part_002): the pointer events
\* ------------------------------------------------------------------------

\* the pointer positions delivered: on or near anchors of the first two
\* columns of shapes, and places to drag them to
MousePts ==
    { PxPt(m) : m \in { <<100, 100>>,    \* base point of triangle 1
        <<100, 105>>,    \* 5 pixels from it
        <<100, 50>>,     \* opposite vertex of triangle 1
        <<100, 230>>,    \* centre of rectangle 1
        <<100, 310>>,    \* second side midpoint of rectangle 1
        <<160, 310>>,    \* a place that turns rectangle 1
        <<250, 230>>,    \* centre of rectangle 2
        <<100, 410>>,    \* centre of circle 1
        <<100, 360>> } }   \* control point of circle 1

\* anchors = [basePoint, oppositeVertex], [center].concat(midPoints),
\* [center, control]; i is the code's 0-based anchor index
Anchor(h) ==
    IF h.kind = "triangle"
    THEN (IF h.anchor = 0 THEN triangles[h.shape].basePoint
          ELSE triangles[h.shape].oppositeVertex)
    ELSE IF h.kind = "rectangle"
    THEN (IF h.anchor = 0 THEN rectangles[h.shape].center
          ELSE rectangles[h.shape].midPoints[h.anchor])
    ELSE (IF h.anchor = 0 THEN circles[h.shape].center
          ELSE circles[h.shape].control)

\* the anchors in the order in which onmousedown's loops visit them
AnchorOrder ==
    [k \in 1..(9 * NumShapes) |->
        IF k <= 2 * NumShapes
        THEN [kind |-> "triangle", shape |-> ((k - 1) \div 2) + 1,
              anchor |-> (k - 1) % 2]
        ELSE IF k <= 7 * NumShapes
        THEN [kind |-> "rectangle", shape |-> ((k - 2 * NumShapes - 1) \div 5) + 1,
              anchor |-> (k - 2 * NumShapes - 1) % 5]
        ELSE [kind |-> "circle", shape |-> ((k - 7 * NumShapes - 1) \div 2) + 1,
              anchor |-> (k - 7 * NumShapes - 1) % 2]]

IsHit(mouse, h) == DistSq(mouse, Anchor(h)) <= Px(HitRadius) * Px(HitRadius)

\* onmousedown without its line demo.onmousemove = null: a press that reaches
\* no anchor leaves the handler of the previous press installed
InstalledHandlerKept(mouse) ==
    LET hits == {k \in 1..Len(AnchorOrder) : IsHit(mouse, AnchorOrder[k])}
    IN  IF hits = {} THEN onmousemove
        ELSE AnchorOrder[CHOOSE k \in hits : \A j \in hits : j <= k]

\* every anchor within reach assigns demo.onmousemove in turn: the last one stays
InstalledHandler(mouse) ==
    LET hits == {k \in 1..Len(AnchorOrder) : IsHit(mouse, AnchorOrder[k])}
    IN  IF hits = {} THEN NoHandler
        ELSE AnchorOrder[CHOOSE k \in hits : \A j \in hits : j <= k]

\* some anchor of some shape is within 5 pixels of the pointer
WithinReachOfAnAnchor(mouse) ==
    \E k \in 1..NumShapes :
        \E anchor \in {triangles[k].basePoint, triangles[k].oppositeVertex,
                        rectangles[k].center, circles[k].center, circles[k].control}
                       \cup {rectangles[k].midPoints[j] : j \in 1..4} :
            DistSq(mouse, anchor) <= Px(HitRadius) * Px(HitRadius)

\* demo.onmousedown
MouseDown(mouse) ==
    /\ nEvents < MaxEvents
    /\ nEvents' = nEvents + 1
    /\ prevMouse' = mouse
    /\ onmousemove' = InstalledHandler(mouse)
    /\ armed' = WithinReachOfAnAnchor(mouse)
    /\ dragStart' = [mouse |-> mouse, moves |-> 0,
                     anchor |-> IF InstalledHandler(mouse) = NoHandler THEN NoMouse
                                ELSE Anchor(InstalledHandler(mouse))]
    /\ UNCHANGED <<triangles, rectangles, circles>>
    /\ UNCHANGED <<harnessVars, robotVars, squareVars, gasketVars>>

\* the anchors after the drag function of the installed handler
Dragged(h, delta) ==
    IF h.kind = "triangle"
    THEN << [triangles EXCEPT ![h.shape] =
                IF h.anchor = 0 THEN dragTriangleBasePoint(delta, @)
                ELSE dragTriangleOppositeVertex(delta, @)],
            rectangles, circles >>
    ELSE IF h.kind = "rectangle"
    THEN << triangles,
            [rectangles EXCEPT ![h.shape] =
                IF h.anchor = 0 THEN dragRectangleCenter(delta, @)
                ELSE dragRectangleMidPoint(delta, h.anchor, @)],
            circles >>
    ELSE << triangles, rectangles,
            [circles EXCEPT ![h.shape] =
                IF h.anchor = 0 THEN dragCircleCenter(delta, @)
                ELSE dragCircleControl(delta, @)] >>

\* the pointer positions for which the model follows the drag: a side-midpoint
\* drag must leave integer coordinates
Followed(h, delta) ==
    (h.kind = "rectangle" /\ h.anchor # 0)
        => DragIsExact(delta, h.anchor, rectangles[h.shape])

\* the handler without its line prevMouse = mouse: every delta is taken from
\* the pointer position at mousedown
MouseMoveDragFromDown(mouse) ==
    /\ nEvents < MaxEvents
    /\ onmousemove # NoHandler
    /\ Followed(onmousemove, Sub(mouse, prevMouse))
    /\ nEvents' = nEvents + 1
    /\ LET d == Dragged(onmousemove, Sub(mouse, prevMouse))
           u == update(d[1], d[2], d[3])
       IN  /\ triangles' = u[1]
           /\ rectangles' = u[2]
           /\ circles' = u[3]
    /\ dragStart' = [dragStart EXCEPT !.moves = @ + 1]
    /\ UNCHANGED <<prevMouse, onmousemove, armed>>
    /\ UNCHANGED <<harnessVars, robotVars, squareVars, gasketVars>>

\* the handler installed by onmousedown: the drag, then update()
MouseMoveDrag(mouse) ==
    /\ nEvents < MaxEvents
    /\ onmousemove # NoHandler
    /\ Followed(onmousemove, Sub(mouse, prevMouse))
    /\ nEvents' = nEvents + 1
    /\ prevMouse' = mouse
    /\ LET d == Dragged(onmousemove, Sub(mouse, prevMouse))
           u == update(d[1], d[2], d[3])
       IN  /\ triangles' = u[1]
           /\ rectangles' = u[2]
           /\ circles' = u[3]
    /\ dragStart' = [dragStart EXCEPT !.moves = @ + 1]
    /\ UNCHANGED <<onmousemove, armed>>
    /\ UNCHANGED <<harnessVars, robotVars, squareVars, gasketVars>>

\* a mousemove while demo.onmousemove is null: nothing runs
MouseMoveIdle(mouse) ==
    /\ nEvents < MaxEvents
    /\ onmousemove = NoHandler
    /\ nEvents' = nEvents + 1
    /\ UNCHANGED <<triangles, rectangles, circles, prevMouse, onmousemove, armed,
                   dragStart>>
    /\ UNCHANGED <<harnessVars, robotVars, squareVars, gasketVars>>

\* demo.onmouseup
MouseUp ==
    /\ nEvents < MaxEvents
    /\ nEvents' = nEvents + 1
    /\ onmousemove' = NoHandler
    /\ armed' = FALSE
    /\ UNCHANGED <<triangles, rectangles, circles, prevMouse, dragStart>>
    /\ UNCHANGED <<harnessVars, robotVars, squareVars, gasketVars>>

\* makePts, then update() (called twice before any event)
Init ==
    /\ pc = "demo"
    /\ args = NoResult
    /\ ret = NoResult
    /\ LET u == update(InitTriangles, InitRectangles, InitCircles)
           v == update(u[1], u[2], u[3])
       IN  /\ triangles = v[1]
           /\ rectangles = v[2]
           /\ circles = v[3]
    /\ prevMouse = NoMouse
    /\ onmousemove = NoHandler
    /\ nEvents = 0
    /\ armed = FALSE
    /\ dragStart = NoDragStart
    /\ RobotIdle
    /\ SquareIdle
    /\ GasketIdle

Next ==
    \/ \E mouse \in MousePts : MouseDown(mouse)
    \/ \E mouse \in MousePts : MouseMoveDrag(mouse)
    \/ \E mouse \in MousePts : MouseMoveIdle(mouse)
    \/ MouseUp

Spec == Init /\ [][Next]_vars

\* the pairwise tests update() makes between two shapes, in either role
PairTest(id, other) ==
    LET kinds == <<id[1], other[1]>>
        i == id[2]
        j == other[2]
    IN  IF kinds = <<"triangle", "triangle">>
        THEN \/ convexPolysIntersectSAT(triangles[i].poly, triangles[j].poly)
             \/ convexPolysIntersectSAT(triangles[j].poly, triangles[i].poly)
        ELSE IF kinds = <<"rectangle", "rectangle">>
        THEN \/ convexPolysIntersectSAT(rectangles[i].poly, rectangles[j].poly)
             \/ convexPolysIntersectSAT(rectangles[j].poly, rectangles[i].poly)
        ELSE IF kinds = <<"circle", "circle">>
        THEN \/ circlesIntersect(circles[i].center, circles[i].radiusSq,
                                 circles[j].center, circles[j].radiusSq)
             \/ circlesIntersect(circles[j].center, circles[j].radiusSq,
                                 circles[i].center, circles[i].radiusSq)
        ELSE IF kinds = <<"triangle", "rectangle">>
        THEN convexPolysIntersectSAT(rectangles[j].poly, triangles[i].poly)
        ELSE IF kinds = <<"rectangle", "triangle">>
        THEN convexPolysIntersectSAT(rectangles[i].poly, triangles[j].poly)
        ELSE IF kinds = <<"triangle", "circle">>
        THEN convexPolyCircleIntersect(circles[j].center, circles[j].radiusSq,
                                       triangles[i].poly)
        ELSE IF kinds = <<"circle", "triangle">>
        THEN convexPolyCircleIntersect(circles[i].center, circles[i].radiusSq,
                                       triangles[j].poly)
        ELSE IF kinds = <<"rectangle", "circle">>
        THEN convexPolyCircleIntersect(circles[j].center, circles[j].radiusSq,
                                       rectangles[i].poly)
        ELSE convexPolyCircleIntersect(circles[i].center, circles[i].radiusSq,
                                       rectangles[j].poly)

ColorOf(id) ==
    IF id[1] = "triangle" THEN triangles[id[2]].color
    ELSE IF id[1] = "rectangle" THEN rectangles[id[2]].color
    ELSE circles[id[2]].color

\* C10: after every update(), every shape is red if and only if at least one
\* pairwise test between it and another shape is true for the current geometry,
\* and black otherwise.
C10_RedIffSomePairIntersects ==
    \A id \in ShapeIds :
        /\ ColorOf(id) \in {"red", "black"}
        /\ ColorOf(id) = "red"
              <=> \E other \in ShapeIds \ {id} : PairTest(id, other)

\* a drag has brought shapes of two kinds together: update() has coloured a
\* triangle and a rectangle red and left another shape black
C10_Witness ==
    /\ nEvents > 0
    /\ \E i, j \in 1..NumShapes :
          /\ triangles[i].color = "red"
          /\ rectangles[j].color = "red"
          /\ PairTest(<<"triangle", i>>, <<"rectangle", j>>)
    /\ \E id \in ShapeIds : ColorOf(id) = "black"

\* ------------------------------------------------------------------------
\* SpecRectDrag: sequences of centre and side-midpoint drags of one rectangle
\* ------------------------------------------------------------------------
\* args is the rectangle, in pixels, ret the last drag applied to it: its
\* kind, the midpoint dragged, the delta, the rectangle before it, the same
\* of the drag before that one, and the number of drags so far.

\* the first rectangle of polygonsDemo after makePts
RectDragStart == InitRectangle(<<100, 230>>, 50, 80)

NoEarlierDrag == [kind |-> "none", delta |-> <<0, 0>>, before |-> RectDragStart]

NoDrag ==
    [kind |-> "none", i |-> 0, delta |-> <<0, 0>>, before |-> RectDragStart,
     earlier |-> NoEarlierDrag, n |-> 0]

\* directions of length 5: along the axes and the 3-4-5 directions
TurnDirs ==
    {<<5, 0>>, <<0, 5>>, <<-5, 0>>, <<0, -5>>, <<3, 4>>, <<-4, 3>>, <<-3, -4>>, <<4, -3>>}

\* the offsets from the centre a side midpoint is dragged to (the centre itself
\* among them), and the deltas of the centre drags
DragOffsets ==
    {<<0, 0>>} \cup {Scale(10 * MaxDragScale, u) : u \in TurnDirs}

InitRectDrag ==
    /\ pc = "drag"
    /\ args = RectDragStart
    /\ ret = NoDrag
    /\ DemoIdle
    /\ RobotIdle
    /\ SquareIdle
    /\ GasketIdle

Drag(kind, i, delta, rectangle) ==
    /\ pc = "drag"
    /\ ret.n < MaxDrags
    /\ args' = [rectangle EXCEPT !.poly = createRectangle(rectangle.center,
                                                            rectangle.midPoints)]
    /\ ret' = [kind |-> kind, i |-> i, delta |-> delta, before |-> args,
               earlier |-> [kind |-> ret.kind, delta |-> ret.delta,
                            before |-> ret.before],
               n |-> ret.n + 1]
    /\ UNCHANGED pc
    /\ UNCHANGED <<demoVars, robotVars, squareVars, gasketVars>>

\* dragRectangleCenter(delta, rectangle.anchors), then createRectangle
DragCenter(delta) ==
    Drag("center", 0, delta, dragRectangleCenter(delta, args))

\* dragRectangleMidPoint(delta, i, rectangle.anchors), then createRectangle
DragMidPoint(i, delta) ==
    /\ ret.n < MaxDrags
    /\ DragIsExact(delta, i, args)
    /\ Drag("midpoint", i, delta, dragRectangleMidPoint(delta, i, args))

NextRectDrag ==
    \/ \E delta \in DragOffsets : DragCenter(delta)
    \/ \E i \in 1..4, offset \in DragOffsets :
          DragMidPoint(i, Sub(Add(args.center, offset), args.midPoints[i]))

SpecRectDrag == InitRectDrag /\ [][NextRectDrag]_vars

\* the diagonals of poly bisect each other at center and its sides meet at
\* right angles
IsRectangleAbout(poly, center) ==
    /\ Add(poly[1], poly[3]) = Scale(2, center)
    /\ Add(poly[2], poly[4]) = Scale(2, center)
    /\ Dot(Sub(poly[1], poly[2]), Sub(poly[2], poly[3])) = 0
    /\ Dot(Sub(poly[2], poly[3]), Sub(poly[3], poly[4])) = 0
    /\ Dot(Sub(poly[3], poly[4]), Sub(poly[4], poly[1])) = 0

\* C11: after any sequence of centre and side-midpoint drags from the initial
\* configuration, opposite side midpoints are reflections of each other through
\* the centre, the offsets of adjacent side midpoints are perpendicular, and
\* the corners computed by createRectangle form a rectangle centred on the
\* centre anchor.
C11_RectangleAnchorsKeepSymmetry ==
    pc = "drag" =>
        /\ \A k \in 1..2 :
              Sub(args.midPoints[k + 2], args.center)
                  = Sub(args.center, args.midPoints[k])
        /\ \A k \in 1..4 :
              Dot(Sub(args.midPoints[k], args.center),
                  Sub(args.midPoints[(k % 4) + 1], args.center)) = 0
        /\ IsRectangleAbout(createRectangle(args.center, args.midPoints), args.center)
        /\ args.poly = createRectangle(args.center, args.midPoints)

\* a side-midpoint drag has turned the rectangle after its centre was moved:
\* no side is parallel to an axis, and it has positive width and height
C11_Witness ==
    /\ pc = "drag"
    /\ ret.kind = "midpoint"
    /\ ret.before.center # RectDragStart.center
    /\ args.poly[1][1] # args.poly[2][1]
    /\ args.poly[1][2] # args.poly[2][2]
    /\ args.poly[2] # args.poly[3]

\* the last two drags moved the centre by a delta and then by its opposite
CenterDraggedThereAndBack ==
    /\ pc = "drag"
    /\ ret.kind = "center"
    /\ ret.earlier.kind = "center"
    /\ ret.delta = Scale(-1, ret.earlier.delta)

\* C12: dragging a rectangle's centre by a delta d and then by -d restores the
\* centre, the four side midpoints and the four corners returned by
\* createRectangle.
C12_CenterDragRoundTrip ==
    CenterDraggedThereAndBack =>
        /\ args.center = ret.earlier.before.center
        /\ args.midPoints = ret.earlier.before.midPoints
        /\ createRectangle(args.center, args.midPoints)
              = createRectangle(ret.earlier.before.center,
                                ret.earlier.before.midPoints)

\* the centre was dragged by a delta that is not zero, to a different place,
\* and back
C12_Witness ==
    /\ CenterDraggedThereAndBack
    /\ ret.delta # <<0, 0>>
    /\ ret.before.center # args.center
    /\ ret.before.poly # args.poly

\* C13: after every event handler of polygonsDemo, each triangle's poly is
\* createIsoceslesTriangle of its current basePoint and oppositeVertex, each
\* rectangle's poly is createRectangle of its current center and midpoints, and
\* each circle's radius is the distance from its center to its control point.
C13_DerivedGeometryInSync ==
    pc = "demo" =>
        /\ \A k \in 1..NumShapes :
              triangles[k].poly = createIsoceslesTriangle(triangles[k].basePoint,
                                                          triangles[k].oppositeVertex)
        /\ \A k \in 1..NumShapes :
              rectangles[k].poly = createRectangle(rectangles[k].center,
                                                   rectangles[k].midPoints)
        /\ \A k \in 1..NumShapes :
              circles[k].radiusSq = DistSq(circles[k].center, circles[k].control)

\* a side-midpoint drag has turned a rectangle, and its polygon has followed:
\* no side of it is parallel to an axis
C13_Witness ==
    /\ pc = "demo"
    /\ onmousemove.kind = "rectangle"
    /\ \E k \in 1..NumShapes :
          /\ rectangles[k].midPoints # InitRectangles[k].midPoints
          /\ rectangles[k].poly[1][1] # rectangles[k].poly[2][1]
          /\ rectangles[k].poly[1][2] # rectangles[k].poly[2][2]

\* ------------------------------------------------------------------------
\* SpecAnchorDrag: the triangle builder and the triangle and circle drags on
\* all anchors of a grid
\* ------------------------------------------------------------------------
\* args.first and args.second are the two anchors of the shape (basePoint and
\* oppositeVertex, or center and control), args.delta the pointer movement

AnchorPts == (0..MaxAnchorCoord) \X (0..MaxAnchorCoord)

AnchorDeltas == ((-MaxAnchorCoord)..MaxAnchorCoord) \X ((-MaxAnchorCoord)..MaxAnchorCoord)

AnchorDragArgs == [first : AnchorPts, second : AnchorPts, delta : AnchorDeltas]

\* the triangle with these anchors, as update() leaves it
TriangleOf(basePoint, oppositeVertex) == InitTriangle(basePoint, oppositeVertex)

\* the circle with these anchors, as update() leaves it
CircleOf(center, control) ==
    [ center |-> center,
      control |-> control,
      radiusSq |-> DistSq(center, control),
      color |-> "black" ]

InitAnchorDrag == Input(AnchorDragArgs)

CallDragTriangleBasePoint ==
    Return("dragTriangleBasePoint",
           updateInfoTriangles(<<dragTriangleBasePoint(args.delta,
                                     TriangleOf(args.first, args.second))>>)[1])

CallDragTriangleOppositeVertex ==
    Return("dragTriangleOppositeVertex",
           updateInfoTriangles(<<dragTriangleOppositeVertex(args.delta,
                                     TriangleOf(args.first, args.second))>>)[1])

\* the drag, then the radius recomputed by updateInfo at the next update
CallDragCircleCenter ==
    Return("dragCircleCenter",
           updateInfoCircles(<<dragCircleCenter(args.delta,
                                   CircleOf(args.first, args.second))>>)[1])

CallDragCircleControl ==
    Return("dragCircleControl",
           updateInfoCircles(<<dragCircleControl(args.delta,
                                   CircleOf(args.first, args.second))>>)[1])

\* the polygon built from the two anchors
CallCreateIsoceslesTriangle ==
    Return("createIsoceslesTriangle", createIsoceslesTriangle(args.first, args.second))

NextAnchorDrag ==
    \/ CallCreateIsoceslesTriangle
    \/ CallDragTriangleBasePoint
    \/ CallDragTriangleOppositeVertex
    \/ CallDragCircleCenter
    \/ CallDragCircleControl

SpecAnchorDrag == InitAnchorDrag /\ [][NextAnchorDrag]_vars

\* C14: dragging a triangle's base point by delta translates the base point and
\* the opposite vertex by delta (the vector from base to apex is unchanged);
\* dragging the opposite vertex by delta moves only the opposite vertex.
C14_TriangleDragFrame ==
    /\ pc = "dragTriangleBasePoint" =>
          /\ ret.basePoint = Add(args.first, args.delta)
          /\ ret.oppositeVertex = Add(args.second, args.delta)
          /\ Sub(ret.oppositeVertex, ret.basePoint) = Sub(args.second, args.first)
    /\ pc = "dragTriangleOppositeVertex" =>
          /\ ret.oppositeVertex = Add(args.second, args.delta)
          /\ ret.basePoint = args.first

\* a triangle with distinct anchors has been dragged by its base point, by a
\* delta that moves it on both axes
C14_Witness ==
    /\ pc = "dragTriangleBasePoint"
    /\ args.first # args.second
    /\ args.delta[1] # 0
    /\ args.delta[2] # 0
    /\ ret.poly # TriangleOf(args.first, args.second).poly

\* C15: dragging a circle's center by delta translates the center and the
\* control point by delta, so the radius recomputed at the next update is
\* unchanged; dragging the control point leaves the center unchanged, and the
\* new radius is the distance from the center to the moved control point.
C15_CircleDragFrame ==
    /\ pc = "dragCircleCenter" =>
          /\ ret.center = Add(args.first, args.delta)
          /\ ret.control = Add(args.second, args.delta)
          /\ ret.radiusSq = DistSq(args.first, args.second)
    /\ pc = "dragCircleControl" =>
          /\ ret.center = args.first
          /\ ret.control = Add(args.second, args.delta)
          /\ ret.radiusSq = DistSq(args.first, Add(args.second, args.delta))

\* a circle of positive radius has been dragged by its centre, by a delta that
\* moves it on both axes
C15_Witness ==
    /\ pc = "dragCircleCenter"
    /\ args.first # args.second
    /\ args.delta[1] # 0
    /\ args.delta[2] # 0
    /\ ret.radiusSq > 0

\* the anchors of all shapes
AllAnchors ==
    << [k \in 1..NumShapes |-> <<triangles[k].basePoint, triangles[k].oppositeVertex>>],
       [k \in 1..NumShapes |-> <<rectangles[k].center, rectangles[k].midPoints>>],
       [k \in 1..NumShapes |-> <<circles[k].center, circles[k].control>>] >>

\* C16: a mousemove changes an anchor only if the most recent mousedown was
\* within 5 pixels of some anchor and no mouseup has occurred since; after a
\* mouseup, and after a mousedown that reaches no anchor, every mousemove
\* leaves all anchors of all shapes unchanged.
C16_AnchorsMoveOnlyWhileArmed ==
    [][ /\ (\E mouse \in MousePts : MouseMoveDrag(mouse) \/ MouseMoveIdle(mouse))
            => (AllAnchors' # AllAnchors => armed)
        /\ ~armed => AllAnchors' = AllAnchors ]_vars

\* a press within reach of an anchor, then a mousemove that has moved an
\* anchor, the button still down
C16_Witness ==
    /\ pc = "demo"
    /\ armed
    /\ nEvents >= 2
    /\ AllAnchors # << [k \in 1..NumShapes |->
                           <<InitTriangles[k].basePoint, InitTriangles[k].oppositeVertex>>],
                       [k \in 1..NumShapes |->
                           <<InitRectangles[k].center, InitRectangles[k].midPoints>>],
                       [k \in 1..NumShapes |->
                           <<InitCircles[k].center, InitCircles[k].control>>] >>

\* C18: for every basePoint and oppositeVertex, the triangle returned by
\* createIsoceslesTriangle has oppositeVertex as its apex, its two base corners
\* are equidistant from the apex, and basePoint is the midpoint of the two base
\* corners.
C18_IsoscelesByConstruction ==
    pc = "createIsoceslesTriangle" =>
        /\ Len(ret) = 3
        /\ ret[1] = args.second
        /\ DistSq(ret[2], args.second) = DistSq(ret[3], args.second)
        /\ Add(ret[2], ret[3]) = Scale(2, args.first)

\* a triangle built on a base that is not parallel to an axis: three distinct
\* corners that are not collinear
C18_Witness ==
    /\ pc = "createIsoceslesTriangle"
    /\ args.first[1] # args.second[1]
    /\ args.first[2] # args.second[2]
    /\ Cross(Sub(ret[2], ret[1]), Sub(ret[3], ret[1])) # 0
\* ------------------------------------------------------------------------
\* SpecOrient: orient on all triples of points of a grid
\* ------------------------------------------------------------------------

OrientPts == ((-MaxOrientCoord)..MaxOrientCoord) \X ((-MaxOrientCoord)..MaxOrientCoord)

OrientArgs == [a : OrientPts, b : OrientPts, c : OrientPts]

InitOrient == Input(OrientArgs)

\* orient(a, b, c) and orient(a, c, b)
CallOrient ==
    Return("orient", [abc |-> orient(args.a, args.b, args.c),
                      acb |-> orient(args.a, args.c, args.b)])

NextOrient == CallOrient

SpecOrient == InitOrient /\ [][NextOrient]_vars

\* C17: for all points a, b, c with integer coordinates,
\* orient(a, b, c) = -orient(a, c, b), both values in {-1, 0, +1}.
C17_OrientAntisymmetric ==
    pc = "orient" =>
        /\ ret.abc \in {-1, 0, 1}
        /\ ret.acb \in {-1, 0, 1}
        /\ ret.abc = -ret.acb

\* three points that are not collinear: the two orientations are 1 and -1
C17_Witness ==
    /\ pc = "orient"
    /\ ret.abc = 1
    /\ ret.acb = -1
    /\ Cross(Sub(args.b, args.a), Sub(args.c, args.a)) # 0

\* ------------------------------------------------------------------------
\* SpecRobot: key presses of the robot demo
\* ------------------------------------------------------------------------

\* the keys pressed: the torso keys, the hand keys and a key without a case
RobotKeys == {"t", "T", "h", "H", "g", "G", "i", "I", "x"}

\* the load listener has installed handleKeyPress and called animate(), which
\* has drawn the robot once
InitRobot ==
    /\ pc = "robot"
    /\ args = NoResult
    /\ ret = NoResult
    /\ DemoIdle
    /\ robot = NoKey
    /\ stack = draw(0)
    /\ SquareIdle
    /\ GasketIdle

\* window.onkeypress = handleKeyPress
KeyPress(ch) ==
    /\ pc = "robot"
    /\ robot.nKeys < MaxKeys
    /\ robot' = [globals |-> handleKeyPress(ch, robot.globals),
                 lastKey |-> ch,
                 before |-> robot.globals,
                 nKeys |-> robot.nKeys + 1]
    /\ UNCHANGED <<harnessVars, demoVars, squareVars, stack, gasketVars>>

\* animate: draw(); requestAnimationFrame(animate)
animate ==
    /\ pc = "robot"
    /\ stack' = draw(robot.nKeys)
    /\ UNCHANGED <<harnessVars, demoVars, squareVars, robot, gasketVars>>

NextRobot ==
    \/ \E ch \in RobotKeys : KeyPress(ch)
    \/ animate

SpecRobot == InitRobot /\ [][NextRobot]_vars

\* each hand's matrix is translate(0, -4, 0) followed by the rotation about y
\* by that hand's own angle
HandsFollowOwnAngles(r) ==
    /\ r.rightHandMatrix = TranslateRotateY(<<0, -4, 0>>, r.rightHandAngle)
    /\ r.leftHandMatrix = TranslateRotateY(<<0, -4, 0>>, r.leftHandAngle)

\* C19: pressing 'h' (resp. 'H') from any reachable state rotates both hands:
\* afterwards each hand's matrix is translate(0, -4, 0) followed by a rotation
\* about y by that hand's own updated angle, and the state is the one reached
\* by pressing 'g' then 'i' (resp. 'G' then 'I').
C19_BothHandsKey ==
    pc = "robot" =>
        /\ robot.lastKey = "h" =>
              /\ HandsFollowOwnAngles(robot.globals)
              /\ robot.globals = handleKeyPress("i", handleKeyPress("g", robot.before))
        /\ robot.lastKey = "H" =>
              /\ HandsFollowOwnAngles(robot.globals)
              /\ robot.globals = handleKeyPress("I", handleKeyPress("G", robot.before))

\* ------------------------------------------------------------------------
\* SpecSquare: the animation loop and the keys of the rotating square
\* ------------------------------------------------------------------------

\* event.code of the keys pressed: the four vertex keys and a key without a case
SquareCodes == {"KeyP", "KeyG", "KeyY", "KeyL", "KeyR"}

InitSquare ==
    /\ pc = "square"
    /\ args = NoResult
    /\ ret = NoResult
    /\ DemoIdle
    /\ RobotIdle
    /\ SquareIdle
    /\ GasketIdle

\* the event handled last, the closure variables before and after it
SquareAfter(event, s) ==
    [vars |-> s, last |-> event, before |-> square.vars, nEvents |-> square.nEvents + 1]

\* mainEntrance on the load event: declares the closure variables, registers
\* the keydown listener and calls runanimation() once
mainEntrance ==
    /\ pc = "square"
    /\ square.last = "none"
    /\ square' = SquareAfter("load", runanimation(SquareStart))
    /\ UNCHANGED <<harnessVars, demoVars, robotVars, gasketVars>>

\* the callback of requestAnimationFrame(runanimation)
AnimationFrame ==
    /\ pc = "square"
    /\ square.last # "none"
    /\ square.nEvents < MaxSquareEvents
    /\ square' = SquareAfter("frame", runanimation(square.vars))
    /\ UNCHANGED <<harnessVars, demoVars, robotVars, gasketVars>>

\* the keydown listener
KeyDown(code) ==
    /\ pc = "square"
    /\ square.last # "none"
    /\ square.nEvents < MaxSquareEvents
    /\ square' = SquareAfter(code,
                     [square.vars EXCEPT !.vertexIndex = keydown(code, @)])
    /\ UNCHANGED <<harnessVars, demoVars, robotVars, gasketVars>>

NextSquare ==
    \/ mainEntrance
    \/ AnimationFrame
    \/ \E code \in SquareCodes : KeyDown(code)

SpecSquare == InitSquare /\ [][NextSquare]_vars

\* C20: the rotating square turns by two degrees per frame: the angle passed
\* to draw is 0 on the first frame and -2 on every later frame, the angle
\* variable is always 0 or -2 whichever vertex key is pressed in between, and
\* pressing P, G, Y or L changes nothing but the fixed vertex index, which
\* becomes 5, 0, 1 or 2 respectively.
C20_TwoDegreesPerFrame ==
    pc = "square" =>
        /\ square.vars.angle \in {0, -2}
        /\ square.vars.nFrames = 1 => square.vars.drawn[1].angle = 0
        /\ square.vars.nFrames > 1 => square.vars.drawn[1].angle = -2
        /\ square.last = "KeyP" => square.vars = [square.before EXCEPT !.vertexIndex = 5]
        /\ square.last = "KeyG" => square.vars = [square.before EXCEPT !.vertexIndex = 0]
        /\ square.last = "KeyY" => square.vars = [square.before EXCEPT !.vertexIndex = 1]
        /\ square.last = "KeyL" => square.vars = [square.before EXCEPT !.vertexIndex = 2]

\* a later frame drawn at -2 degrees about the vertex chosen with G between two
\* frames
C20_Witness ==
    /\ pc = "square"
    /\ square.last = "frame"
    /\ square.vars.nFrames = 2
    /\ square.before.vertexIndex = 0
    /\ square.before.drawn = <<[angle |-> 0, vertexIndex |-> 5]>>
    /\ square.vars.drawn = <<[angle |-> -2, vertexIndex |-> 0]>>

\* ------------------------------------------------------------------------
\* distToSegment against the closest point of the segment
\* ------------------------------------------------------------------------

\* the segment a-b is sampled at a + (k / SegmentSamples) (b - a)
SegmentSamples == 4

\* the squared distance from p to the closest point of the closed segment a-b
\* (a # b), as the fraction [num, den]: p projects before a when the angle at
\* a is obtuse, beyond b when the angle at b is obtuse, and onto the segment
\* otherwise, where the distance is the area of the parallelogram on a-b and
\* a-p divided by |a-b|
ClosestDistSq(p, a, b) ==
    IF Dot(Sub(p, a), Sub(b, a)) < 0 THEN [num |-> DistSq(p, a), den |-> 1]
    ELSE IF Dot(Sub(p, b), Sub(a, b)) < 0 THEN [num |-> DistSq(p, b), den |-> 1]
    ELSE [num |-> Cross(Sub(b, a), Sub(p, a)) * Cross(Sub(b, a), Sub(p, a)),
          den |-> DistSq(a, b)]

\* SegmentSamples^2 times the squared distance from p to the k-th sample of a-b
SampleDistSq(p, a, b, k) ==
    LET w == Sub(Scale(SegmentSamples, Sub(p, a)), Scale(k, Sub(b, a)))
    IN  Dot(w, w)

\* C21: for every point p and every segment a-b with a # b, distToSegment(p,
\* a, b) is the distance from p to the closest point of the closed segment:
\* the distance to a when p projects before a, the distance to b when p
\* projects beyond b, the perpendicular distance to the supporting line
\* otherwise (compared on squared distances), and no sampled point of the
\* segment is closer.
C21_DistToSegmentIsClosestPoint ==
    (pc = "distToSegment" /\ args.a # args.b) =>
        LET c == ClosestDistSq(args.p, args.a, args.b)
        IN  /\ ~ret.nan
            /\ ret.num * c.den = c.num * ret.den
            /\ \A k \in 0..SegmentSamples :
                  ret.num * SegmentSamples * SegmentSamples
                      <= SampleDistSq(args.p, args.a, args.b, k) * ret.den

\* a point beyond the far end of a slanted segment, at distance sqrt 2 from b
C21_Witness ==
    /\ pc = "distToSegment"
    /\ args.a = <<0, 0>>
    /\ args.b = <<1, 1>>
    /\ args.p = <<2, 2>>
    /\ ~ret.nan
    /\ ret.num = 2 * ret.den

\* ------------------------------------------------------------------------
\* side-midpoint drags: the dimension across the dragged midpoint
\* ------------------------------------------------------------------------

\* the last drag was of side midpoint ret.i
MidPointDragged == pc = "drag" /\ ret.kind = "midpoint"

\* the squared distances from the centre to the two side midpoints adjacent
\* to midpoint i
AdjacentSizesSq(rectangle, i) ==
    <<DistSq(rectangle.center, rectangle.midPoints[(i % 4) + 1]),
      DistSq(rectangle.center, rectangle.midPoints[((i - 2 + 4) % 4) + 1])>>

\* C22: a side-midpoint drag edits only the dimension along the dragged
\* midpoint: for every drag delta, one that moves the dragged midpoint onto
\* the centre included, the centre is unchanged and the distance from the
\* centre to each of the two adjacent side midpoints is the same after the drag
\* as before it.
C22_MidPointDragKeepsOtherDimension ==
    MidPointDragged =>
        /\ args.center = ret.before.center
        /\ AdjacentSizesSq(args, ret.i) = AdjacentSizesSq(ret.before, ret.i)

\* the same for the drags that leave the dragged midpoint off the centre; a
\* drag onto the centre leaves all four side midpoints on the centre
MidPointDragKeepsOtherDimensionOffCenter ==
    MidPointDragged =>
        /\ args.center = ret.before.center
        /\ args.midPoints[ret.i] # args.center
              => AdjacentSizesSq(args, ret.i) = AdjacentSizesSq(ret.before, ret.i)
        /\ args.midPoints[ret.i] = args.center
              => \A k \in 1..4 : args.midPoints[k] = args.center

\* ------------------------------------------------------------------------
\* SpecStack: calls on one Stack, next to the sequence it should behave as
\* ------------------------------------------------------------------------
\* stack.obj is the Stack, stack.lifo the sequence of the matrices pushed and
\* not yet popped, kept by Append and SubSeq alone; stack.last and
\* stack.result are the last call and what it returned, stack.before the
\* Stack and the sequence before that call, stack.pushes and stack.pops the
\* numbers of pushes and of pops that removed an element.

StackMatrices == {<<"a">>, <<"b">>}

InitStack ==
    /\ pc = "stack"
    /\ args = NoResult
    /\ ret = NoResult
    /\ DemoIdle
    /\ robot = NoKey
    /\ SquareIdle
    /\ GasketIdle
    /\ stack = [obj |-> StackNew, lifo |-> <<>>, last |-> "new", result |-> NoMatrix,
                before |-> [obj |-> StackNew, lifo |-> <<>>],
                pushes |-> 0, pops |-> 0, n |-> 0]

StackCall(name, obj, lifo, result) ==
    /\ pc = "stack"
    /\ stack.n < MaxStackOps
    /\ stack' = [obj |-> obj, lifo |-> lifo, last |-> name, result |-> result,
                 before |-> [obj |-> stack.obj, lifo |-> stack.lifo],
                 pushes |-> stack.pushes + BoolToInt(name = "push"),
                 pops |-> stack.pops + BoolToInt(name = "pop" /\ stack.lifo # <<>>),
                 n |-> stack.n + 1]
    /\ UNCHANGED <<harnessVars, demoVars, squareVars, robot, gasketVars>>

CallPush(m) ==
    StackCall("push", push(stack.obj, m), Append(stack.lifo, m), NoMatrix)

CallPop ==
    StackCall("pop", pop(stack.obj).stack,
              IF stack.lifo = <<>> THEN <<>>
              ELSE SubSeq(stack.lifo, 1, Len(stack.lifo) - 1),
              pop(stack.obj).value)

CallTop == StackCall("top", stack.obj, stack.lifo, top(stack.obj))

CallIsEmpty == StackCall("isEmpty", stack.obj, stack.lifo, isEmpty(stack.obj))

NextStack ==
    \/ \E m \in StackMatrices : CallPush(m)
    \/ CallPop
    \/ CallTop
    \/ CallIsEmpty

SpecStack == InitStack /\ [][NextStack]_vars

\* C24: for any sequence of push, pop, top and isEmpty calls the Stack behaves
\* as a LIFO sequence: top() and pop() return the most recently pushed element
\* not yet popped, isEmpty() is true exactly when the pushes equal the
\* successful pops, and pop() or top() on an empty stack return undefined and
\* leave the stack unchanged; the counter t is never negative.
C24_StackIsLIFO ==
    pc = "stack" =>
        /\ stack.obj.t >= 0
        /\ stack.obj.t = Len(stack.lifo)
        /\ Len(stack.lifo) = stack.pushes - stack.pops
        /\ \A k \in 1..Len(stack.lifo) : stack.obj.elements[k] = stack.lifo[k]
        /\ stack.last \in {"top", "pop"} =>
              stack.result = IF stack.before.lifo = <<>> THEN NoMatrix
                             ELSE stack.before.lifo[Len(stack.before.lifo)]
        /\ stack.last \in {"top", "isEmpty"} => stack.obj = stack.before.obj
        /\ stack.last = "pop" /\ stack.before.lifo = <<>> => stack.obj = stack.before.obj
        /\ stack.last = "isEmpty" => stack.result = (stack.pushes = stack.pops)

\* a pop on the emptied stack after a and b were pushed and popped: it returns
\* undefined and leaves the two cleared slots
C24_Witness ==
    /\ pc = "stack"
    /\ stack.last = "pop"
    /\ stack.pushes = 2
    /\ stack.pops = 2
    /\ stack.n = 5
    /\ stack.result = NoMatrix
    /\ stack.obj = [elements |-> <<NoMatrix, NoMatrix>>, t |-> 0]

\* ------------------------------------------------------------------------
\* the matrix stack of the robot's draw()
\* ------------------------------------------------------------------------

\* C23: during every call of the robot's draw(), top() and pop() are never
\* called on an empty Stack, the pushes and the pops are balanced and the stack
\* is empty when draw() finishes, so that the warning "pops do not match
\* pushes" is never logged.
C23_DrawStackBalanced ==
    pc = "robot" =>
        /\ stack.underflows = 0
        /\ stack.pushes = stack.pops
        /\ isEmpty(stack.s)
        /\ ~stack.warned

\* the robot drawn again after both hands were turned: 19 matrices pushed
C23_Witness ==
    /\ pc = "robot"
    /\ robot.lastKey = "h"
    /\ stack.after = robot.nKeys
    /\ stack.pushes = Cardinality({k \in 1..Len(DrawStatements) :
                                      DrawStatements[k].op \in {"push", "pushChild"}})
    /\ stack.pushes > 1

\* ------------------------------------------------------------------------
\* SpecDivide: drawTriangle on the subdivision values the page can hand it
\* ------------------------------------------------------------------------

\* the value of the control "div" is the text of an integer, which Math.min
\* converts to that integer
DrawTriangleArgs ==
    [ndiv : -1..MaxNdiv, fill : BOOLEAN, doTwist : BOOLEAN, useGPU : BOOLEAN,
     angle : {RotationAngle}]

InitDivide == Input(DrawTriangleArgs)

CallDrawTriangle ==
    Return("drawTriangle",
           drawTriangle(args.ndiv, args.doTwist, args.useGPU, args.angle,
                        [GasketStart EXCEPT !.fill = args.fill]))

NextDivide == CallDrawTriangle

SpecDivide == InitDivide /\ [][NextDivide]_vars

RECURSIVE Power(_, _)
Power(b, n) == IF n = 0 THEN 1 ELSE b * Power(b, n - 1)

InitGasket ==
    /\ pc = "gasket"
    /\ args = NoResult
    /\ ret = NoResult
    /\ DemoIdle
    /\ RobotIdle
    /\ SquareIdle
    /\ gasket = [g |-> init(GasketStart), controls |-> ControlsStart,
                 last |-> "init", draws |-> 1, n |-> 0]

GasketEvent(name, g, controls, draws) ==
    /\ pc = "gasket"
    /\ gasket.n < MaxGasketEvents
    /\ gasket' = [g |-> g, controls |-> controls, last |-> name,
                  draws |-> gasket.draws + draws, n |-> gasket.n + 1]
    /\ UNCHANGED <<harnessVars, demoVars, robotVars, squareVars>>

\* slider.onchange: the value goes to "div", then clickCallBack()
SliderChange(value) ==
    LET c == [gasket.controls EXCEPT !.slider = value, !.div = value]
    IN  GasketEvent("slider", clickCallBack(c, gasket.g), c, 1)

\* a click on one of the check boxes, then clickCallBack()
Click(box) ==
    LET c == [gasket.controls EXCEPT ![box] = ~@]
    IN  GasketEvent(box, clickCallBack(c, gasket.g), c, 1)

\* a pending timeout of render expires: the frame is drawn, the angle shown
\* in "ang", and render is handed to requestAnimFrame
TimeoutExpires ==
    /\ gasket.g.timeouts > 0
    /\ LET g == renderTimeout(gasket.g)
       IN  GasketEvent("timeout", g, [gasket.controls EXCEPT !.ang = g.ang], 0)

\* a pending requestAnimFrame(render) callback runs render()
AnimFrame ==
    /\ gasket.g.frames > 0
    /\ GasketEvent("frame", render([gasket.g EXCEPT !.frames = @ - 1]),
                   gasket.controls, 0)

NextGasket ==
    \/ \E value \in 0..MaxSliderValue : SliderChange(value)
    \/ \E box \in {"fill", "spin", "twist", "gpu"} : Click(box)
    \/ TimeoutExpires
    \/ AnimFrame

SpecGasket == InitGasket /\ [][NextGasket]_vars

\* the render loops: pending timeouts of render and pending animation frames
RenderLoops == gasket.g.timeouts + gasket.g.frames

\* C29: at most one render loop (one pending setTimeout / requestAnimFrame
\* chain calling render) is active at any time, however many times
\* clickCallBack or drawTriangle is called.
C29_AtMostOneRenderLoop ==
    pc = "gasket" => RenderLoops <= 1

\* every call of drawTriangle starts a render loop and no loop ever ends
RenderLoopPerDrawTriangle ==
    pc = "gasket" => RenderLoops = gasket.draws

\* ------------------------------------------------------------------------
\* SpecPolySwap: the edge-test convexPolysIntersect with its arguments in
\* both orders
\* ------------------------------------------------------------------------

InitPolySwap == Input(PolyPairArgs)

CallConvexPolysIntersectBothOrders ==
    Return("convexPolysIntersectBothOrders",
           [forward |-> convexPolysIntersect(args.poly, args.poly2),
            swapped |-> convexPolysIntersect(args.poly2, args.poly)])

NextPolySwap == CallConvexPolysIntersectBothOrders

SpecPolySwap == InitPolySwap /\ [][NextPolySwap]_vars

\* C26: the edge-test convexPolysIntersect is symmetric:
\* convexPolysIntersect(P, Q) = convexPolysIntersect(Q, P) for convex polygons
\* P and Q with 3 or 4 vertices, although points1 is counted once per pair of
\* edges and points2 once per vertex, both against the threshold 3.
C26_EdgeTestSymmetric ==
    pc = "convexPolysIntersectBothOrders" => ret.forward = ret.swapped

\* a triangle wholly inside a rectangle on which the guard of
\* pointInConvexPoly does not fire: no edges meet, one order is decided by
\* points2 and the other by points1
C26_Witness ==
    /\ pc = "convexPolysIntersectBothOrders"
    /\ Len(args.poly) = 3
    /\ Len(args.poly2) = 4
    /\ WhollyInside(args.poly, args.poly2)
    /\ ~GuardFires(args.poly2)
    /\ ret.forward
    /\ ret.swapped

\* ------------------------------------------------------------------------
\* polygonsDemo (trab02/PolygonIntersection.js): shapes, makePts, update()
\* ------------------------------------------------------------------------

\* isosceles({ basePoint, oppositeVertex })
isosceles(t) ==
    LET u == Sub(t.basePoint, t.oppositeVertex)
        v == <<-u[2], u[1]>>
        w == <<u[2], -u[1]>>
    IN  <<t.oppositeVertex, Add(t.basePoint, v), Add(t.basePoint, w)>>

makeRectangle(center, width, height) ==
    << Add(center, <<width, 0>>),
       Add(center, <<0, height>>),
       Add(center, <<-width, 0>>),
       Add(center, <<0, -height>>) >>

\* const iso = [...]
iso ==
    << [basePoint |-> PxPt(<<100, 100>>), oppositeVertex |-> PxPt(<<100, 50>>),
        poly |-> <<>>, color |-> "black"],
       [basePoint |-> PxPt(<<250, 100>>), oppositeVertex |-> PxPt(<<250, 50>>),
        poly |-> <<>>, color |-> "black"],
       [basePoint |-> PxPt(<<400, 100>>), oppositeVertex |-> PxPt(<<400, 50>>),
        poly |-> <<>>, color |-> "black"] >>

\* const rect = [...]: sides is "" until makePts
rect ==
    << [center |-> PxPt(<<100, 230>>), sides |-> <<>>, width |-> Px(50),
        height |-> Px(80), color |-> "black"],
       [center |-> PxPt(<<250, 230>>), sides |-> <<>>, width |-> Px(50),
        height |-> Px(80), color |-> "black"],
       [center |-> PxPt(<<400, 230>>), sides |-> <<>>, width |-> Px(50),
        height |-> Px(80), color |-> "black"] >>

\* const circ = [...]: the radius is carried squared
circ ==
    << [center |-> PxPt(<<100, 410>>), radiusSq |-> Px(50) * Px(50),
        radiusControl |-> PxPt(<<100, 360>>), color |-> "black"],
       [center |-> PxPt(<<250, 410>>), radiusSq |-> Px(50) * Px(50),
        radiusControl |-> PxPt(<<250, 360>>), color |-> "black"],
       [center |-> PxPt(<<400, 410>>), radiusSq |-> Px(50) * Px(50),
        radiusControl |-> PxPt(<<400, 360>>), color |-> "black"] >>

\* makePts(): every triangle's poly from its two anchors, every rectangle's
\* sides from its center, width and height; <<triangles, rectangles>> after it
makePts(ts, rs) ==
    << [k \in 1..Len(ts) |-> [ts[k] EXCEPT !.poly = isosceles(ts[k])]],
       [k \in 1..Len(rs) |->
           [rs[k] EXCEPT !.sides = makeRectangle(rs[k].center, rs[k].width,
                                                 rs[k].height)]] >>

updateRadius(cs) ==
    [k \in 1..Len(cs) |->
        [cs[k] EXCEPT !.radiusSq = DistSq(cs[k].radiusControl, cs[k].center)]]

\* the loops "tri x tri" and "rect x rect" of update() on the polygons polys:
\* t1.color = "black", then t1 and t2 red for every other t2 that meets t1;
\* red is the set of indices coloured red
RECURSIVE intersectLoop(_, _, _)
intersectLoop(k, red, polys) ==
    IF k > Len(polys) THEN red
    ELSE LET met == {j \in (1..Len(polys)) \ {k} :
                        convexPolysIntersect(polys[k], polys[j])}
         IN  intersectLoop(k + 1,
                 (red \ {k}) \cup met \cup (IF met = {} THEN {} ELSE {k}), polys)

Coloured(shapes, polys) ==
    LET red == intersectLoop(1, {k \in 1..Len(shapes) : shapes[k].color = "red"},
                             polys)
    IN  [k \in 1..Len(shapes) |->
            [shapes[k] EXCEPT !.color = IF k \in red THEN "red" ELSE "black"]]

\* update() of trab02: updateRadius(), the triangles against the triangles, the
\* rectangles (their side midpoints as polygon) against the rectangles; no
\* circle changes colour
updateTrab02(ts, rs, cs) ==
    << Coloured(ts, [k \in 1..Len(ts) |-> ts[k].poly]),
       Coloured(rs, [k \in 1..Len(rs) |-> rs[k].sides]),
       updateRadius(cs) >>

\* ------------------------------------------------------------------------
\* polygonsDemo (trab02/PolygonIntersection.js): the drags
\* ------------------------------------------------------------------------

\* dragBase on points = [r.center].concat(r.sides)
dragBase(delta, r) ==
    [r EXCEPT !.center = Add(r.center, delta),
              !.sides = [k \in 1..4 |-> Add(r.sides[k], delta)]]

\* dragVtx on points = [r.center].concat(r.sides): points[i] is sides[i] here
dragVtx(delta, i, r) ==
    LET opp == ((i + 1) % 4) + 1
        nxt == (i % 4) + 1
        prv == ((i - 2 + 4) % 4) + 1
        sizeSq == DistSq(r.sides[nxt], r.center)
        vtx == Add(r.sides[i], delta)
        next == TurnedAndScaled(vtx, r.center, sizeSq)
    IN  [r EXCEPT
            !.sides = [k \in 1..4 |->
                IF k = prv THEN HalfTurn(next, r.center)
                ELSE IF k = nxt THEN next
                ELSE IF k = opp THEN Sub(r.sides[opp], delta)
                ELSE vtx]]

\* dragCircleCenter and dragCircleEdge on circlePoints = [c.center, c.radiusControl]
dragCircleCenterTrab02(delta, c) ==
    [c EXCEPT !.center = Add(c.center, delta),
              !.radiusControl = Add(c.radiusControl, delta)]

dragCircleEdge(delta, c) ==
    [c EXCEPT !.radiusControl = Add(c.radiusControl, delta)]

\* dragTriangleCenter and dragTriangleEdge on trianglePoints = [t.basePoint,
\* t.oppositeVertex]
dragTriangleCenter(delta, t) ==
    LET v == Sub(t.oppositeVertex, t.basePoint)
        base == Add(t.basePoint, delta)
    IN  [t EXCEPT !.basePoint = base, !.oppositeVertex = Add(base, v)]

dragTriangleEdge(delta, t) ==
    [t EXCEPT !.oppositeVertex = Add(t.oppositeVertex, delta)]

\* ------------------------------------------------------------------------
\* polygonsDemo (trab02/PolygonIntersection.js): the pointer events
\* ------------------------------------------------------------------------

MaxTrabEvents == 4

\* the pointer positions delivered
TrabMousePts ==
    { PxPt(m) : m \in { <<100, 310>>,    \* second side midpoint of rectangle 1
        <<160, 310>>,    \* a place that turns rectangle 1
        <<100, 100>>,    \* base point of triangle 1
        <<100, 50>>,     \* opposite vertex of triangle 1
        <<100, 360>>,    \* control point of circle 1
        <<100, 410>> } }   \* centre of circle 1

\* the anchors in the order in which onmousedown's loops visit them:
\* rectangles, circles, triangles
TrabAnchorOrder ==
    [k \in 1..(9 * NumShapes) |->
        IF k <= 5 * NumShapes
        THEN [kind |-> "rectangle", shape |-> ((k - 1) \div 5) + 1,
              anchor |-> (k - 1) % 5]
        ELSE IF k <= 7 * NumShapes
        THEN [kind |-> "circle", shape |-> ((k - 5 * NumShapes - 1) \div 2) + 1,
              anchor |-> (k - 5 * NumShapes - 1) % 2]
        ELSE [kind |-> "triangle", shape |-> ((k - 7 * NumShapes - 1) \div 2) + 1,
              anchor |-> (k - 7 * NumShapes - 1) % 2]]

\* points[i], circlePoints[i], trianglePoints[i] of onmousedown
TrabAnchor(h) ==
    IF h.kind = "rectangle"
    THEN (IF h.anchor = 0 THEN rectangles[h.shape].center
          ELSE rectangles[h.shape].sides[h.anchor])
    ELSE IF h.kind = "circle"
    THEN (IF h.anchor = 0 THEN circles[h.shape].center
          ELSE circles[h.shape].radiusControl)
    ELSE (IF h.anchor = 0 THEN triangles[h.shape].basePoint
          ELSE triangles[h.shape].oppositeVertex)

\* every anchor within 5 pixels assigns demo.onmousemove in turn: the last stays
TrabInstalledHandler(mouse) ==
    LET hits == {k \in 1..Len(TrabAnchorOrder) :
                    DistSq(mouse, TrabAnchor(TrabAnchorOrder[k]))
                        <= Px(HitRadius) * Px(HitRadius)}
    IN  IF hits = {} THEN NoHandler
        ELSE TrabAnchorOrder[CHOOSE k \in hits : \A j \in hits : j <= k]

\* the shapes after the handler h installed by onmousedown has run for delta:
\* the drag, for a triangle makePts(), then update()
TrabHandler(h, delta) ==
    IF h.kind = "rectangle"
    THEN updateTrab02(triangles,
             [rectangles EXCEPT ![h.shape] =
                 IF h.anchor = 0 THEN dragBase(delta, @)
                 ELSE dragVtx(delta, h.anchor, @)],
             circles)
    ELSE IF h.kind = "circle"
    THEN updateTrab02(triangles, rectangles,
             [circles EXCEPT ![h.shape] =
                 IF h.anchor = 0 THEN dragCircleCenterTrab02(delta, @)
                 ELSE dragCircleEdge(delta, @)])
    ELSE LET made == makePts([triangles EXCEPT ![h.shape] =
                                 IF h.anchor = 0 THEN dragTriangleCenter(delta, @)
                                 ELSE dragTriangleEdge(delta, @)],
                             rectangles)
         IN  updateTrab02(made[1], made[2], circles)

\* the pointer positions for which the model follows the drag: a side-midpoint
\* drag must leave integer coordinates
TrabFollowed(h, delta) ==
    (h.kind = "rectangle" /\ h.anchor # 0)
        => TurnedAndScaled(Add(rectangles[h.shape].sides[h.anchor], delta),
                           rectangles[h.shape].center,
                           DistSq(rectangles[h.shape].sides[(h.anchor % 4) + 1],
                                  rectangles[h.shape].center)) # <<>>

\* makePts(), update(), and update() again at the end of polygonsDemo
InitTrab02 ==
    /\ pc = "trab02"
    /\ args = NoResult
    /\ ret = NoResult
    /\ LET made == makePts(iso, rect)
           u == updateTrab02(made[1], made[2], circ)
           v == updateTrab02(u[1], u[2], u[3])
       IN  /\ triangles = v[1]
           /\ rectangles = v[2]
           /\ circles = v[3]
    /\ prevMouse = NoMouse
    /\ onmousemove = NoHandler
    /\ nEvents = 0
    /\ armed = FALSE
    /\ dragStart = NoDragStart
    /\ RobotIdle
    /\ SquareIdle
    /\ GasketIdle

\* demo.onmousedown
TrabMouseDown(mouse) ==
    /\ pc = "trab02"
    /\ nEvents < MaxTrabEvents
    /\ nEvents' = nEvents + 1
    /\ prevMouse' = mouse
    /\ onmousemove' = TrabInstalledHandler(mouse)
    /\ UNCHANGED <<triangles, rectangles, circles, armed, dragStart>>
    /\ UNCHANGED <<harnessVars, robotVars, squareVars, gasketVars>>

\* the handler installed by onmousedown
TrabMouseMoveDrag(mouse) ==
    /\ pc = "trab02"
    /\ nEvents < MaxTrabEvents
    /\ onmousemove # NoHandler
    /\ TrabFollowed(onmousemove, Sub(mouse, prevMouse))
    /\ nEvents' = nEvents + 1
    /\ prevMouse' = mouse
    /\ LET u == TrabHandler(onmousemove, Sub(mouse, prevMouse))
       IN  /\ triangles' = u[1]
           /\ rectangles' = u[2]
           /\ circles' = u[3]
    /\ UNCHANGED <<onmousemove, armed, dragStart>>
    /\ UNCHANGED <<harnessVars, robotVars, squareVars, gasketVars>>

\* a mousemove while demo.onmousemove is null: nothing runs
TrabMouseMoveIdle(mouse) ==
    /\ pc = "trab02"
    /\ nEvents < MaxTrabEvents
    /\ onmousemove = NoHandler
    /\ nEvents' = nEvents + 1
    /\ UNCHANGED <<triangles, rectangles, circles, prevMouse, onmousemove, armed,
                   dragStart>>
    /\ UNCHANGED <<harnessVars, robotVars, squareVars, gasketVars>>

\* demo.onmouseup
TrabMouseUp ==
    /\ pc = "trab02"
    /\ nEvents < MaxTrabEvents
    /\ nEvents' = nEvents + 1
    /\ onmousemove' = NoHandler
    /\ UNCHANGED <<triangles, rectangles, circles, prevMouse, armed, dragStart>>
    /\ UNCHANGED <<harnessVars, robotVars, squareVars, gasketVars>>

NextTrab02 ==
    \/ \E mouse \in TrabMousePts : TrabMouseDown(mouse)
    \/ \E mouse \in TrabMousePts : TrabMouseMoveDrag(mouse)
    \/ \E mouse \in TrabMousePts : TrabMouseMoveIdle(mouse)
    \/ TrabMouseUp

SpecTrab02 == InitTrab02 /\ [][NextTrab02]_vars

\* a mousemove delivered while a triangle anchor is being dragged
TriangleMouseMove ==
    /\ onmousemove.kind = "triangle"
    /\ \E mouse \in TrabMousePts : TrabMouseMoveDrag(mouse)

\* C27: a mousemove while a triangle anchor is being dragged changes only that
\* triangle: every rectangle's side midpoints and every circle's control point
\* keep the values they had before the move, whatever drags preceded it.
C27_TriangleMoveKeepsOtherShapes ==
    [][TriangleMouseMove =>
          \A k \in 1..NumShapes :
              /\ rectangles'[k].sides = rectangles[k].sides
              /\ circles'[k].radiusControl = circles[k].radiusControl]_vars

\* what the triangle handler of trab02 does keep: every rectangle's centre and
\* every circle's centre and control point, and the side midpoints of the
\* rectangles that still have the layout makePts gives them
TriangleMoveKeepsCentersAndCircles ==
    [][TriangleMouseMove =>
          \A k \in 1..NumShapes :
              /\ rectangles'[k].center = rectangles[k].center
              /\ circles'[k].center = circles[k].center
              /\ circles'[k].radiusControl = circles[k].radiusControl
              /\ rectangles[k].sides = makeRectangle(rectangles[k].center,
                                           rectangles[k].width, rectangles[k].height)
                     => rectangles'[k].sides = rectangles[k].sides]_vars

\* ------------------------------------------------------------------------
\* polygonsDemo (unnamed/part_002): the dragged anchor follows the pointer
\* ------------------------------------------------------------------------

\* C28: during a drag, after every mousemove the dragged anchor is where it
\* was at mousedown plus (current pointer position minus pointer position at
\* mousedown), so it stays within 5 pixels of the pointer.
C28_AnchorFollowsPointer ==
    (pc = "demo" /\ onmousemove # NoHandler)
        => /\ Anchor(onmousemove)
                  = Add(dragStart.anchor, Sub(prevMouse, dragStart.mouse))
           /\ DistSq(Anchor(onmousemove), prevMouse) <= Px(HitRadius) * Px(HitRadius)

\* a side midpoint of a rectangle has been dragged by two mousemoves to a place
\* other than the one where it was grabbed
C28_Witness ==
    /\ pc = "demo"
    /\ onmousemove.kind = "rectangle"
    /\ onmousemove.anchor # 0
    /\ dragStart.moves >= 2
    /\ prevMouse # dragStart.mouse
    /\ Anchor(onmousemove) # dragStart.anchor

====
